---- MODULE Spec2Model ----
(***************************************************************************)
(* Model of universal_mcp_reddit.app.RedditApp: the authenticated request  *)
(* executor (_get_headers, _post, the inherited _get) and the response     *)
(* normalizers (get_subreddit_posts, search_subreddits), together with the *)
(* write operations built on _post.                                        *)
(*                                                                         *)
(* Python values are modelled as follows.                                  *)
(*   - a dict is a record; d.get(k, default) is Get(d, k, default) and     *)
(*     "k in d" is k \in DOMAIN d;                                         *)
(*   - a formatted string (f-string, str.join) is a sequence of tokens:    *)
(*     the literal fragments of the source and the interpolated values,    *)
(*     numbers already converted to text; Str flattens it to one string;   *)
(*   - the outcome of a call is a record: a returned text, a returned      *)
(*     JSON value or a raised exception.                                   *)
(***************************************************************************)
EXTENDS Integers, Sequences, FiniteSets, TLC

VARIABLES integration, base_api_url, base_url, pc, call, upstream,
          requests, getCalls, credReads, log, posted, result,
          callers, wire

vars == <<integration, base_api_url, base_url, pc, call, upstream,
          requests, getCalls, credReads, log, posted, result,
          callers, wire>>

(***************************************************************************)
(* Bounds of the model.                                                    *)
(***************************************************************************)
MaxChildren == 2

(***************************************************************************)
(* Generic helpers.                                                        *)
(***************************************************************************)
Range(s) == {s[i] : i \in 1..Len(s)}

EmptyDict == <<>>

Get(d, k, default) == IF k \in DOMAIN d THEN d[k] ELSE default

\* variant: the comprehension keeps every key
RestrictKeepingAll(d, S) == d

Restrict(d, S) == [k \in S |-> d[k]]

RECURSIVE Str(_)
Str(tokens) == IF tokens = <<>> THEN "" ELSE Head(tokens) \o Str(Tail(tokens))

RECURSIVE Join(_, _)
Join(parts, sep) ==
    IF parts = <<>> THEN <<>>
    ELSE IF Len(parts) = 1 THEN Head(parts)
    ELSE Head(parts) \o <<sep>> \o Join(Tail(parts), sep)

SeqsUpTo(S, n) == UNION {[1..k -> S] : k \in 0..n}

(***************************************************************************)
(* Outcomes of a Python call.                                              *)
(***************************************************************************)
NoResult == [kind |-> "none"]

ReturnText(tokens) == [kind |-> "return", type |-> "text", text |-> tokens]

ReturnJson(value) == [kind |-> "return", type |-> "json", json |-> value]

ReturnResponse(resp) == [kind |-> "return", type |-> "response", response |-> resp]

Raise(exctype, tokens) == [kind |-> "raise", exc |-> exctype, text |-> tokens]

LogLine(level, tokens) == [level |-> level, msg |-> tokens]

(***************************************************************************)
(* RedditApp.__init__                                                      *)
(***************************************************************************)
BaseUrl == "https://oauth.reddit.com"

NoIntegration == [configured |-> FALSE, authorized |-> FALSE,
                  credentials |-> [username |-> "bob"]]

Credentials == {[access_token |-> "tokA"], [access_token |-> "tokB"],
                [username |-> "bob"]}

Integrations ==
    {NoIntegration} \cup
    {[configured |-> TRUE, authorized |-> a, credentials |-> c] :
        a \in BOOLEAN, c \in Credentials}

(***************************************************************************)
(* RedditApp._get_headers                                                  *)
(***************************************************************************)
UserAgent == "agentr-reddit-app/0.1 by AgentR"

\* variant: credentials without a token are fetched a second time
GetHeadersRetry(integ) ==
    IF ~integ.configured THEN
        [out |-> Raise("ValueError", <<"Integration not configured for RedditApp">>),
         reads |-> 0, log |-> <<>>]
    ELSE IF ~integ.authorized THEN
        [out |-> Raise("NotAuthorizedError", <<"Authorization required">>),
         reads |-> 1, log |-> <<>>]
    ELSE IF "access_token" \notin DOMAIN integ.credentials THEN
        [out |-> Raise("ValueError", <<"Invalid Reddit credentials format.">>),
         reads |-> 2,
         log |-> <<LogLine("error",
                     <<"Reddit credentials found but missing 'access_token'.">>)>>]
    ELSE
        [out |-> ReturnJson([Authorization |->
                                <<"Bearer ", integ.credentials.access_token>>,
                             UserAgent |-> UserAgent]),
         reads |-> 1, log |-> <<>>]

GetHeaders(integ) ==
    IF ~integ.configured THEN
        [out |-> Raise("ValueError", <<"Integration not configured for RedditApp">>),
         reads |-> 0, log |-> <<>>]
    ELSE IF ~integ.authorized THEN
        [out |-> Raise("NotAuthorizedError", <<"Authorization required">>),
         reads |-> 1, log |-> <<>>]
    ELSE IF "access_token" \notin DOMAIN integ.credentials THEN
        [out |-> Raise("ValueError", <<"Invalid Reddit credentials format.">>),
         reads |-> 1,
         log |-> <<LogLine("error",
                     <<"Reddit credentials found but missing 'access_token'.">>)>>]
    ELSE
        [out |-> ReturnJson([Authorization |->
                                <<"Bearer ", integ.credentials.access_token>>,
                             UserAgent |-> UserAgent]),
         reads |-> 1, log |-> <<>>]


(***************************************************************************)
(* The HTTP transport (httpx) and the upstream's answers.  An answer is    *)
(* either a response (status, raw body text, parsed JSON if the body is    *)
(* JSON) or a transport failure raised by httpx before any response.       *)
(***************************************************************************)
NoJson == [nojson |-> TRUE]

Response(status, text, isJson, json) ==
    [kind |-> "response", status |-> status, text |-> text,
     isJson |-> isJson, json |-> json]

TransportError ==
    [kind |-> "transport_error", status |-> 0, text |-> "",
     isJson |-> FALSE, json |-> NoJson]

Request(method, url, headers, params, data) ==
    [method |-> method, url |-> url, headers |-> headers,
     params |-> params, data |-> data]

\* variant: redirects count as success too
IsSuccessOrRedirect(status) == status >= 200 /\ status <= 399

\* httpx.Response.is_success
IsSuccess(status) == status >= 200 /\ status <= 299

RateLimitFallback == "Rate limit exceeded. Please try again later."

\* "x or y" on strings: the empty string is falsy
StrOr(x, y) == IF x = "" THEN y ELSE x

(***************************************************************************)
(* RedditApp._post                                                         *)
(***************************************************************************)
\* variant: the 429 body is handed back even when it is empty
Post429NoFallback(e) == ReturnText(<<e.text>>)

\* what the except branch for a 429 hands back
Post429(e) == ReturnText(<<StrOr(e.text, RateLimitFallback)>>)

\* variant: the except branch logs, then hands the message back as text
ReraiseSwallowed(e, line) == [out |-> ReturnText(e.text), log |-> <<line>>]

\* an except branch that logs one line and then does "raise e"
Reraise(e, line) == [out |-> e, log |-> <<line>>]

\* variant: a failed request is sent a second time
SendAgainOnFailure(req, up) ==
    IF up.kind = "response" /\ IsSuccess(up.status) THEN <<req>> ELSE <<req, req>>

\* the requests put on the wire by the single httpx.post of line 19
Send(req, up) == <<req>>

\* what httpx raises when no response arrives
TransportException == Raise("ConnectError", <<"connection failed">>)

Post(integ, url, data, up) ==
    LET h == GetHeaders(integ) IN
    IF h.out.kind = "raise" /\ h.out.exc = "NotAuthorizedError" THEN
        LET r == Reraise(h.out, LogLine("warning",
                                   <<"Authorization needed: ">> \o h.out.text))
        IN [out |-> r.out, requests |-> <<>>, reads |-> h.reads,
            log |-> h.log \o r.log]
    ELSE IF h.out.kind = "raise" THEN
        LET r == Reraise(h.out, LogLine("error",
                                   <<"Error posting ">> \o url \o <<": ">>
                                   \o h.out.text))
        IN [out |-> r.out, requests |-> <<>>, reads |-> h.reads,
            log |-> h.log \o r.log]
    ELSE
        LET req == Send(Request("POST", url, h.out.json, EmptyDict, data), up) IN
        IF up.kind = "transport_error" THEN
            LET r == Reraise(TransportException,
                             LogLine("error", <<"Error posting ">> \o url \o <<": ">>
                                              \o TransportException.text))
            IN [out |-> r.out, requests |-> req, reads |-> h.reads,
                log |-> h.log \o r.log]
        ELSE IF IsSuccess(up.status) THEN
            [out |-> ReturnResponse(up), requests |-> req,
             reads |-> h.reads, log |-> h.log]
        ELSE IF up.status = 429 THEN
            [out |-> Post429(up), requests |-> req,
             reads |-> h.reads, log |-> h.log]
        ELSE
            [out |-> [kind |-> "raise", exc |-> "HTTPStatusError",
                      text |-> <<up.text>>, response |-> up],
             requests |-> req, reads |-> h.reads, log |-> h.log]

(***************************************************************************)
(* APIApplication._get, inherited from the universal_mcp library: it asks  *)
(* _get_headers for the headers and issues one GET.  Whether it raises for *)
(* a non-2xx status itself or hands the response back depends on the       *)
(* library version, so raisesForStatus is an input of the model.           *)
(***************************************************************************)
HttpGet(integ, url, params, up, raisesForStatus) ==
    LET h == GetHeaders(integ) IN
    IF h.out.kind = "raise" THEN
        [out |-> h.out, requests |-> <<>>, reads |-> h.reads, log |-> h.log]
    ELSE
        LET req == <<Request("GET", url, h.out.json, params, EmptyDict)>> IN
        IF up.kind = "transport_error" THEN
            [out |-> TransportException,
             requests |-> req, reads |-> h.reads, log |-> h.log]
        ELSE IF ~IsSuccess(up.status) /\ raisesForStatus THEN
            [out |-> [kind |-> "raise", exc |-> "HTTPStatusError",
                      text |-> <<up.text>>, response |-> up],
             requests |-> req, reads |-> h.reads, log |-> h.log]
        ELSE
            [out |-> ReturnResponse(up), requests |-> req,
             reads |-> h.reads, log |-> h.log]

\* httpx.Response.json
ResponseJson(resp) ==
    IF resp.isJson THEN ReturnJson(resp.json)
    ELSE Raise("JSONDecodeError", <<"Expecting value">>)

(***************************************************************************)
(* Validation shared by get_subreddit_posts and search_subreddits.         *)
(***************************************************************************)
MinLimit == 1

MaxLimit == 100

\* variant: the upper bound is excluded
LimitOkExclusive(limit) == MinLimit <= limit /\ limit < MaxLimit

LimitOk(limit) == MinLimit <= limit /\ limit <= MaxLimit

InvalidLimitMsg(limit) ==
    <<"Error: Invalid limit '", ToString(limit),
      "'. Please use a value between 1 and 100.">>

\* variant: the error field counts only when there is no data
HasErrorWithoutData(data) == "error" \in DOMAIN data /\ "data" \notin DOMAIN data

\* "error" in data
HasError(data) == "error" \in DOMAIN data

\* variant: the empty list is not told apart
IsEmptyListNever(list) == FALSE

\* "not posts" on a list: the empty list is falsy
IsEmptyList(list) == Len(list) = 0

\* the list [s] rendered as a sequence of one-token strings, for str.join
Strings(list) == [i \in 1..Len(list) |-> <<list[i]>>]

(***************************************************************************)
(* RedditApp.get_subreddit_posts                                           *)
(***************************************************************************)
valid_timeframes == <<"hour", "day", "week", "month", "year", "all">>

InvalidTimeframeMsg(timeframe) ==
    <<"Error: Invalid timeframe '", timeframe, "'. Please use one of: ">>
        \o Join(Strings(valid_timeframes), ", ")

SitePrefix == "https://www.reddit.com"

\* variant: the link is built without testing the permalink
FullUrlAlways(permalink) == <<SitePrefix, permalink>>

\* f"https://www.reddit.com{permalink}" if permalink else "No Link"
FullUrl(permalink) ==
    IF permalink # "" THEN <<SitePrefix, permalink>> ELSE <<"No Link">>

\* the two lines appended for posts[i + 1] at index i of enumerate(posts)
PostEntry(i, post_container) ==
    LET post      == Get(post_container, "data", EmptyDict)
        title     == Get(post, "title", "No Title")
        score     == Get(post, "score", 0)
        author    == Get(post, "author", "Unknown Author")
        permalink == Get(post, "permalink", "")
        full_url  == FullUrl(permalink)
    IN  << <<ToString(i + 1), ". \"", title, "\" by u/", author,
             " (Score: ", ToString(score), ")">>,
           <<"   Link: ">> \o full_url >>

\* variant: the loop stops one item early
RECURSIVE PostLinesShort(_, _)
PostLinesShort(posts, i) ==
    IF i >= Len(posts) - 1 THEN <<>>
    ELSE PostEntry(i, posts[i + 1]) \o PostLinesShort(posts, i + 1)

RECURSIVE PostLines(_, _)
PostLines(posts, i) ==
    IF i >= Len(posts) THEN <<>>
    ELSE PostEntry(i, posts[i + 1]) \o PostLines(posts, i + 1)

\* variant: the header is not followed by the blank line
PostsHeaderNoBlank(subreddit, timeframe, posts) ==
    <<"Top ", ToString(Len(posts)), " posts from r/", subreddit,
      " (timeframe: ", timeframe, "):">>

PostsHeader(subreddit, timeframe, posts) ==
    <<"Top ", ToString(Len(posts)), " posts from r/", subreddit,
      " (timeframe: ", timeframe, "):", "\n">>

\* lines 81-105: what is made of the parsed payload
NormalizePosts(data, subreddit, timeframe) ==
    IF HasError(data) THEN
        [out |-> ReturnText(<<"Error from Reddit API: ", ToString(data["error"]),
                              " - ", Get(data, "message", "")>>),
         log |-> <<LogLine("error",
                     <<"Reddit API error: ", ToString(data["error"]),
                       " - ", Get(data, "message", "")>>)>>]
    ELSE
        LET posts == Get(Get(data, "data", EmptyDict), "children", <<>>) IN
        IF IsEmptyList(posts) THEN
            [out |-> ReturnText(<<"No top posts found in r/", subreddit,
                                  " for the timeframe '", timeframe, "'.">>),
             log |-> <<>>]
        ELSE
            [out |-> ReturnText(
                        Join(<<PostsHeader(subreddit, timeframe, posts)>>
                                \o PostLines(posts, 0), "\n")),
             log |-> <<>>]

\* variant: the limit is checked before the timeframe
get_subreddit_posts_limit_first(integ, api_url, subreddit, limit, timeframe, up, raises) ==
    IF ~LimitOk(limit) THEN
        [out |-> ReturnText(InvalidLimitMsg(limit)),
         requests |-> <<>>, reads |-> 0, gets |-> 0, log |-> <<>>,
         posted |-> NoResult]
    ELSE IF timeframe \notin Range(valid_timeframes) THEN
        [out |-> ReturnText(InvalidTimeframeMsg(timeframe)),
         requests |-> <<>>, reads |-> 0, gets |-> 0, log |-> <<>>,
         posted |-> NoResult]
    ELSE
        LET url    == <<api_url, "/r/", subreddit, "/top">>
            params == [limit |-> limit, t |-> timeframe]
            info   == <<LogLine("info",
                          <<"Requesting top ", ToString(limit), " posts from r/",
                            subreddit, " for timeframe '", timeframe, "'">>)>>
            g      == HttpGet(integ, url, params, up, raises)
        IN
        IF g.out.kind = "raise" THEN
            [out |-> g.out, requests |-> g.requests, reads |-> g.reads,
             gets |-> 1, log |-> info \o g.log,
             posted |-> NoResult]
        ELSE
            LET j == ResponseJson(g.out.response) IN
            IF j.kind = "raise" THEN
                [out |-> j, requests |-> g.requests, reads |-> g.reads,
                 gets |-> 1, log |-> info \o g.log,
             posted |-> NoResult]
            ELSE
                LET n == NormalizePosts(j.json, subreddit, timeframe) IN
                [out |-> n.out, requests |-> g.requests, reads |-> g.reads,
                 gets |-> 1, log |-> info \o g.log \o n.log,
             posted |-> NoResult]

get_subreddit_posts(integ, api_url, subreddit, limit, timeframe, up, raises) ==
    IF timeframe \notin Range(valid_timeframes) THEN
        [out |-> ReturnText(InvalidTimeframeMsg(timeframe)),
         requests |-> <<>>, reads |-> 0, gets |-> 0, log |-> <<>>,
         posted |-> NoResult]
    ELSE IF ~LimitOk(limit) THEN
        [out |-> ReturnText(InvalidLimitMsg(limit)),
         requests |-> <<>>, reads |-> 0, gets |-> 0, log |-> <<>>,
         posted |-> NoResult]
    ELSE
        LET url    == <<api_url, "/r/", subreddit, "/top">>
            params == [limit |-> limit, t |-> timeframe]
            info   == <<LogLine("info",
                          <<"Requesting top ", ToString(limit), " posts from r/",
                            subreddit, " for timeframe '", timeframe, "'">>)>>
            g      == HttpGet(integ, url, params, up, raises)
        IN
        IF g.out.kind = "raise" THEN
            [out |-> g.out, requests |-> g.requests, reads |-> g.reads,
             gets |-> 1, log |-> info \o g.log,
             posted |-> NoResult]
        ELSE
            LET j == ResponseJson(g.out.response) IN
            IF j.kind = "raise" THEN
                [out |-> j, requests |-> g.requests, reads |-> g.reads,
                 gets |-> 1, log |-> info \o g.log,
             posted |-> NoResult]
            ELSE
                LET n == NormalizePosts(j.json, subreddit, timeframe) IN
                [out |-> n.out, requests |-> g.requests, reads |-> g.reads,
                 gets |-> 1, log |-> info \o g.log \o n.log,
             posted |-> NoResult]

(***************************************************************************)
(* RedditApp.search_subreddits                                             *)
(***************************************************************************)
valid_sorts == <<"relevance", "activity">>

\* variant: the message lists the allowed values without the last one
InvalidSortMsgShort(sort) ==
    <<"Error: Invalid sort option '", sort, "'. Please use one of: ">>
        \o Join(Strings(SubSeq(valid_sorts, 1, Len(valid_sorts) - 1)), ", ")

InvalidSortMsg(sort) ==
    <<"Error: Invalid sort option '", sort, "'. Please use one of: ">>
        \o Join(Strings(valid_sorts), ", ")

\* str.strip on the descriptions of the model
Strip(s) == IF s = "  " THEN "" ELSE s

Pad3(m) ==
    IF m < 10 THEN "00" \o ToString(m)
    ELSE IF m < 100 THEN "0" \o ToString(m)
    ELSE ToString(m)

\* format(n, ","): decimal digits in groups of three
RECURSIVE FmtThousands(_)
FmtThousands(n) ==
    IF n < 1000 THEN ToString(n)
    ELSE FmtThousands(n \div 1000) \o "," \o Pad3(n % 1000)

\* variant: the count is always formatted as a number
SubscriberStrPlain(subscribers) == FmtThousands(subscribers)

SubscriberStr(subscribers) ==
    IF subscribers # 0 THEN FmtThousands(subscribers) ELSE "Unknown"

\* the one or two lines appended for subreddits[i + 1]
SubEntry(i, sub_container) ==
    LET sub_data     == Get(sub_container, "data", EmptyDict)
        display_name == Get(sub_data, "display_name", "N/A")
        title        == Get(sub_data, "title", "No Title")
        subscribers  == Get(sub_data, "subscribers", 0)
        description  == StrOr(Strip(Get(sub_data, "public_description", "")), title)
        subscriber_str == SubscriberStr(subscribers)
    IN  << <<ToString(i + 1), ". r/", display_name, " (", subscriber_str,
             " subscribers)">> >>
        \o (IF description # "" THEN << <<"   Description: ", description>> >>
            ELSE <<>>)

RECURSIVE SubLines(_, _)
SubLines(subreddits, i) ==
    IF i >= Len(subreddits) THEN <<>>
    ELSE SubEntry(i, subreddits[i + 1]) \o SubLines(subreddits, i + 1)

\* variant: only the items that carry a data record are counted
SubsHeaderCountingData(query, sort, subreddits) ==
    <<"Found ",
      ToString(Cardinality({i \in 1..Len(subreddits) : "data" \in DOMAIN subreddits[i]})),
      " subreddits matching '", query, "' (sorted by ", sort, "):", "\n">>

SubsHeader(query, sort, subreddits) ==
    <<"Found ", ToString(Len(subreddits)), " subreddits matching '", query,
      "' (sorted by ", sort, "):", "\n">>

\* lines 147-177: what is made of the parsed payload
NormalizeSubs(data, query, sort) ==
    IF HasError(data) THEN
        [out |-> ReturnText(<<"Error from Reddit API during search: ",
                              ToString(data["error"]),
                              " - ", Get(data, "message", "")>>),
         log |-> <<LogLine("error",
                     <<"Reddit API error during subreddit search: ",
                       ToString(data["error"]),
                       " - ", Get(data, "message", "")>>)>>]
    ELSE
        LET subreddits == Get(Get(data, "data", EmptyDict), "children", <<>>) IN
        IF IsEmptyList(subreddits) THEN
            [out |-> ReturnText(<<"No subreddits found matching the query '",
                                  query, "'.">>),
             log |-> <<>>]
        ELSE
            [out |-> ReturnText(
                        Join(<<SubsHeader(query, sort, subreddits)>>
                                \o SubLines(subreddits, 0), "\n")),
             log |-> <<>>]

search_subreddits(integ, api_url, query, limit, sort, up, raises) ==
    IF sort \notin Range(valid_sorts) THEN
        [out |-> ReturnText(InvalidSortMsg(sort)),
         requests |-> <<>>, reads |-> 0, gets |-> 0, log |-> <<>>,
         posted |-> NoResult]
    ELSE IF ~LimitOk(limit) THEN
        [out |-> ReturnText(InvalidLimitMsg(limit)),
         requests |-> <<>>, reads |-> 0, gets |-> 0, log |-> <<>>,
         posted |-> NoResult]
    ELSE
        LET url    == <<api_url, "/subreddits/search">>
            params == [q |-> query, limit |-> limit, sort |-> sort]
            info   == <<LogLine("info",
                          <<"Searching for subreddits matching '", query,
                            "' (limit: ", ToString(limit), ", sort: ", sort, ")">>)>>
            g      == HttpGet(integ, url, params, up, raises)
        IN
        IF g.out.kind = "raise" THEN
            [out |-> g.out, requests |-> g.requests, reads |-> g.reads,
             gets |-> 1, log |-> info \o g.log,
             posted |-> NoResult]
        ELSE
            LET j == ResponseJson(g.out.response) IN
            IF j.kind = "raise" THEN
                [out |-> j, requests |-> g.requests, reads |-> g.reads,
                 gets |-> 1, log |-> info \o g.log,
             posted |-> NoResult]
            ELSE
                LET n == NormalizeSubs(j.json, query, sort) IN
                [out |-> n.out, requests |-> g.requests, reads |-> g.reads,
                 gets |-> 1, log |-> info \o g.log \o n.log,
             posted |-> NoResult]

(***************************************************************************)
(* The write operations built on _post.  _post hands back either a         *)
(* response object or, for a 429, a str; the callers use the value as a    *)
(* response object.                                                        *)
(***************************************************************************)
None == "<None>"

\* response.json() on what _post returned
PostedJson(out) ==
    IF out.type = "text" THEN
        Raise("AttributeError", <<"'str' object has no attribute 'json'">>)
    ELSE ResponseJson(out.response)

\* variant: the text of a 429 passes for a successful response
PostedRaiseForStatusLenient(out) ==
    IF out.type = "text" THEN NoResult
    ELSE IF ~IsSuccess(out.response.status) THEN
        [kind |-> "raise", exc |-> "HTTPStatusError",
         text |-> <<out.response.text>>, response |-> out.response]
    ELSE NoResult

\* response.raise_for_status() on what _post returned
PostedRaiseForStatus(out) ==
    IF out.type = "text" THEN
        Raise("AttributeError",
              <<"'str' object has no attribute 'raise_for_status'">>)
    ELSE IF ~IsSuccess(out.response.status) THEN
        [kind |-> "raise", exc |-> "HTTPStatusError",
         text |-> <<out.response.text>>, response |-> out.response]
    ELSE NoResult

\* variant: the headers of each request sent are logged at debug level
EffectsLoggingHeaders(out, p, lines) ==
    [out |-> out, requests |-> p.requests, reads |-> p.reads, gets |-> 0,
     log |-> lines \o [i \in 1..Len(p.requests) |->
                         LogLine("debug", <<"headers: ">>
                                          \o p.requests[i].headers.Authorization)],
     posted |-> p.out]

Effects(out, p, lines) ==
    [out |-> out, requests |-> p.requests, reads |-> p.reads, gets |-> 0,
     log |-> lines, posted |-> p.out]

\* ", ".join([f"{code}: {message}" for code, message in errors])
RECURSIVE ErrorParts(_)
ErrorParts(errors) ==
    IF errors = <<>> THEN <<>>
    ELSE << <<Head(errors)[1], ": ", Head(errors)[2]>> >> \o ErrorParts(Tail(errors))

\* lines 251-263: what create_post makes of the parsed answer
CreatePostResult(response_json) ==
    IF /\ "json" \in DOMAIN response_json
       /\ "errors" \in DOMAIN response_json["json"]
       /\ Len(response_json["json"]["errors"]) > 0
    THEN
        LET errors == response_json["json"]["errors"] IN
        IF \E i \in 1..Len(errors) : Len(errors[i]) # 2 THEN
            Raise("ValueError", <<"too many values to unpack (expected 2)">>)
        ELSE
            ReturnText(<<"Reddit API error: ">> \o Join(ErrorParts(errors), ", "))
    ELSE ReturnJson(response_json)

\* variant: only a text that is None is refused for a self post
create_post_accepting_empty(integ, api_url, subreddit, title, kind, text, url, flair_id, up) ==
    IF kind \notin {"self", "link"} THEN
        [out |-> Raise("ValueError",
                       <<"Invalid post kind. Must be one of 'self' or 'link'.">>),
         requests |-> <<>>, reads |-> 0, gets |-> 0, log |-> <<>>,
         posted |-> NoResult]
    ELSE IF kind = "self" /\ text = None THEN
        [out |-> Raise("ValueError", <<"Text content is required for text posts.">>),
         requests |-> <<>>, reads |-> 0, gets |-> 0, log |-> <<>>,
         posted |-> NoResult]
    ELSE IF kind = "link" /\ url \in {None, ""} THEN
        [out |-> Raise("ValueError",
                       <<"URL is required for link posts (including images).">>),
         requests |-> <<>>, reads |-> 0, gets |-> 0, log |-> <<>>,
         posted |-> NoResult]
    ELSE
        LET all  == [sr |-> subreddit, title |-> title, kind |-> kind,
                     text |-> text, url |-> url, flair_id |-> flair_id]
            data == Restrict(all, {k \in DOMAIN all : all[k] # None})
            url_api == <<api_url, "/api/submit">>
            info == <<LogLine("info", <<"Submitting a new post to r/", subreddit>>)>>
            p    == Post(integ, url_api, data, up)
        IN
        IF p.out.kind = "raise" THEN Effects(p.out, p, info \o p.log)
        ELSE
            LET j == PostedJson(p.out) IN
            IF j.kind = "raise" THEN Effects(j, p, info \o p.log)
            ELSE Effects(CreatePostResult(j.json), p, info \o p.log)

create_post(integ, api_url, subreddit, title, kind, text, url, flair_id, up) ==
    IF kind \notin {"self", "link"} THEN
        [out |-> Raise("ValueError",
                       <<"Invalid post kind. Must be one of 'self' or 'link'.">>),
         requests |-> <<>>, reads |-> 0, gets |-> 0, log |-> <<>>,
         posted |-> NoResult]
    ELSE IF kind = "self" /\ text \in {None, ""} THEN
        [out |-> Raise("ValueError", <<"Text content is required for text posts.">>),
         requests |-> <<>>, reads |-> 0, gets |-> 0, log |-> <<>>,
         posted |-> NoResult]
    ELSE IF kind = "link" /\ url \in {None, ""} THEN
        [out |-> Raise("ValueError",
                       <<"URL is required for link posts (including images).">>),
         requests |-> <<>>, reads |-> 0, gets |-> 0, log |-> <<>>,
         posted |-> NoResult]
    ELSE
        LET all  == [sr |-> subreddit, title |-> title, kind |-> kind,
                     text |-> text, url |-> url, flair_id |-> flair_id]
            data == Restrict(all, {k \in DOMAIN all : all[k] # None})
            url_api == <<api_url, "/api/submit">>
            info == <<LogLine("info", <<"Submitting a new post to r/", subreddit>>)>>
            p    == Post(integ, url_api, data, up)
        IN
        IF p.out.kind = "raise" THEN Effects(p.out, p, info \o p.log)
        ELSE
            LET j == PostedJson(p.out) IN
            IF j.kind = "raise" THEN Effects(j, p, info \o p.log)
            ELSE Effects(CreatePostResult(j.json), p, info \o p.log)

\* variant: the last child is taken
FirstIsLast(list) == list[Len(list)]

\* comments[0]
First(list) == list[1]

get_comment_by_id(integ, comment_id, up, raises) ==
    LET url == <<"https://oauth.reddit.com/api/info.json?id=", comment_id>>
        g   == HttpGet(integ, url, EmptyDict, up, raises)
        j   == ResponseJson(g.out.response)
        comments == Get(Get(j.json, "data", EmptyDict), "children", <<>>)
        out == IF g.out.kind = "raise" THEN g.out
               ELSE IF j.kind = "raise" THEN j
               ELSE IF ~IsEmptyList(comments) THEN
                   IF "data" \in DOMAIN First(comments)
                   THEN ReturnJson(First(comments)["data"])
                   ELSE Raise("KeyError", <<"'data'">>)
               ELSE ReturnJson([error |-> "Comment not found."])
    IN
    [out |-> out, requests |-> g.requests, reads |-> g.reads, gets |-> 1,
     log |-> g.log, posted |-> NoResult]

post_comment(integ, api_url, parent_id, text, up) ==
    LET url  == <<api_url, "/api/comment">>
        data == [parent |-> parent_id, text |-> text]
        info == <<LogLine("info", <<"Posting comment to ", parent_id>>)>>
        p    == Post(integ, url, data, up)
    IN
    IF p.out.kind = "raise" THEN Effects(p.out, p, info \o p.log)
    ELSE Effects(PostedJson(p.out), p, info \o p.log)

edit_content(integ, api_url, content_id, text, up) ==
    LET url  == <<api_url, "/api/editusertext">>
        data == [thing_id |-> content_id, text |-> text]
        info == <<LogLine("info", <<"Editing content ", content_id>>)>>
        p    == Post(integ, url, data, up)
    IN
    IF p.out.kind = "raise" THEN Effects(p.out, p, info \o p.log)
    ELSE Effects(PostedJson(p.out), p, info \o p.log)

delete_content(integ, api_url, content_id, up) ==
    LET url  == <<api_url, "/api/del">>
        data == [id |-> content_id]
        info == <<LogLine("info", <<"Deleting content ", content_id>>)>>
        p    == Post(integ, url, data, up)
    IN
    IF p.out.kind = "raise" THEN Effects(p.out, p, info \o p.log)
    ELSE
        LET r == PostedRaiseForStatus(p.out) IN
        IF r.kind = "raise" THEN Effects(r, p, info \o p.log)
        ELSE Effects(ReturnJson([message |-> <<"Content ", content_id,
                                               " deleted successfully.">>]),
                     p, info \o p.log)

(***************************************************************************)
(* The generated endpoint operations.  They check their required path      *)
(* parameters, build the URL, call one transport helper, then call         *)
(* response.raise_for_status() and return response.json().                 *)
(***************************************************************************)
\* variant: the missing parameter is reported as a returned message
MissingParameterReturned(name) ==
    ReturnText(<<"Missing required parameter '", name, "'">>)

\* raise ValueError("Missing required parameter '<name>'")
MissingParameter(name) ==
    Raise("ValueError", <<"Missing required parameter '", name, "'">>)

NoEffects(out) ==
    [out |-> out, requests |-> <<>>, reads |-> 0, gets |-> 0, log |-> <<>>,
     posted |-> NoResult]

\* APIApplication._delete, inherited like _get: one DELETE with the headers
\* of _get_headers
HttpDelete(integ, url, params, up, raisesForStatus) ==
    LET h == GetHeaders(integ) IN
    IF h.out.kind = "raise" THEN
        [out |-> h.out, requests |-> <<>>, reads |-> h.reads, log |-> h.log]
    ELSE
        LET req == <<Request("DELETE", url, h.out.json, params, EmptyDict)>> IN
        IF up.kind = "transport_error" THEN
            [out |-> TransportException,
             requests |-> req, reads |-> h.reads, log |-> h.log]
        ELSE IF ~IsSuccess(up.status) /\ raisesForStatus THEN
            [out |-> [kind |-> "raise", exc |-> "HTTPStatusError",
                      text |-> <<up.text>>, response |-> up],
             requests |-> req, reads |-> h.reads, log |-> h.log]
        ELSE
            [out |-> ReturnResponse(up), requests |-> req,
             reads |-> h.reads, log |-> h.log]

\* response.raise_for_status(); return response.json()
CheckedJson(out) ==
    LET r == PostedRaiseForStatus(out) IN
    IF r.kind = "raise" THEN r ELSE PostedJson(out)

api_v1_subreddit_emoji_emoji_name(integ, url0, subreddit, emoji_name, up, raises) ==
    IF subreddit = None THEN NoEffects(MissingParameter("subreddit"))
    ELSE IF emoji_name = None THEN NoEffects(MissingParameter("emoji_name"))
    ELSE
        LET url == <<url0, "/api/v1/", subreddit, "/emoji/", emoji_name>>
            query_params == EmptyDict
            g   == HttpDelete(integ, url, query_params, up, raises)
        IN
        [out |-> IF g.out.kind = "raise" THEN g.out ELSE CheckedJson(g.out),
         requests |-> g.requests, reads |-> g.reads, gets |-> 1,
         log |-> g.log, posted |-> NoResult]

\* variant: the parameters are checked in the order of the path
api_multi_multipath_rsubreddit1_reordered(integ, url0, multipath, subreddit, up, raises) ==
    IF subreddit = None THEN NoEffects(MissingParameter("subreddit"))
    ELSE IF multipath = None THEN NoEffects(MissingParameter("multipath"))
    ELSE
        LET url == <<url0, "/api/multi/", multipath, "/r/", subreddit>>
            query_params == EmptyDict
            g   == HttpGet(integ, url, query_params, up, raises)
        IN
        [out |-> IF g.out.kind = "raise" THEN g.out ELSE CheckedJson(g.out),
         requests |-> g.requests, reads |-> g.reads, gets |-> 1,
         log |-> g.log, posted |-> NoResult]

api_multi_multipath_rsubreddit1(integ, url0, multipath, subreddit, up, raises) ==
    IF multipath = None THEN NoEffects(MissingParameter("multipath"))
    ELSE IF subreddit = None THEN NoEffects(MissingParameter("subreddit"))
    ELSE
        LET url == <<url0, "/api/multi/", multipath, "/r/", subreddit>>
            query_params == EmptyDict
            g   == HttpGet(integ, url, query_params, up, raises)
        IN
        [out |-> IF g.out.kind = "raise" THEN g.out ELSE CheckedJson(g.out),
         requests |-> g.requests, reads |-> g.reads, gets |-> 1,
         log |-> g.log, posted |-> NoResult]

\* the parameters of _post besides self (line 16)
PostParams == {"url", "data"}

\* self._post(url, **keywords): the call is bound to the signature of _post
\* before its body runs
CallPost(integ, url, keywords, data, up) ==
    IF keywords \subseteq PostParams THEN
        LET p == Post(integ, url, data, up) IN
        [out |-> p.out, requests |-> p.requests, reads |-> p.reads,
         log |-> p.log, posted |-> p.out]
    ELSE
        [out |-> Raise("TypeError",
                       <<"RedditApp._post() got an unexpected keyword argument 'params'">>),
         requests |-> <<>>, reads |-> 0, log |-> <<>>, posted |-> NoResult]

\* the body shared by the unarchive, unban and unmute operations
ModConversationPost(integ, url0, conversation_id, verb, up) ==
    IF conversation_id = None THEN NoEffects(MissingParameter("conversation_id"))
    ELSE
        LET url == <<url0, "/api/mod/conversations/", conversation_id, "/", verb>>
            p   == CallPost(integ, url, {"data", "params"}, EmptyDict, up)
        IN
        [out |-> IF p.out.kind = "raise" THEN p.out ELSE CheckedJson(p.out),
         requests |-> p.requests, reads |-> p.reads, gets |-> 0,
         log |-> p.log, posted |-> p.posted]

api_mod_conversations_conversation_id_unarchive(integ, url0, conversation_id, up) ==
    ModConversationPost(integ, url0, conversation_id, "unarchive", up)

api_mod_conversations_conversation_id_unban(integ, url0, conversation_id, up) ==
    ModConversationPost(integ, url0, conversation_id, "unban", up)

api_mod_conversations_conversation_id_unmute(integ, url0, conversation_id, up) ==
    ModConversationPost(integ, url0, conversation_id, "unmute", up)

\* APIApplication._patch, inherited like _get: one PATCH with the headers of
\* _get_headers, the form body data and the query parameters params
HttpPatch(integ, url, data, params, up, raisesForStatus) ==
    LET h == GetHeaders(integ) IN
    IF h.out.kind = "raise" THEN
        [out |-> h.out, requests |-> <<>>, reads |-> h.reads, log |-> h.log]
    ELSE
        LET req == <<Request("PATCH", url, h.out.json, params, data)>> IN
        IF up.kind = "transport_error" THEN
            [out |-> TransportException,
             requests |-> req, reads |-> h.reads, log |-> h.log]
        ELSE IF ~IsSuccess(up.status) /\ raisesForStatus THEN
            [out |-> [kind |-> "raise", exc |-> "HTTPStatusError",
                      text |-> <<up.text>>, response |-> up],
             requests |-> req, reads |-> h.reads, log |-> h.log]
        ELSE
            [out |-> ReturnResponse(up), requests |-> req,
             reads |-> h.reads, log |-> h.log]

\* the keyword arguments of api_v1_me_prefs1, which are the keys of its
\* request_body
PrefsKeys ==
    {"accept_pms", "activity_relevant_ads", "allow_clicktracking",
     "bad_comment_autocollapse", "beta", "clickgadget",
     "collapse_read_messages", "compress", "country_code",
     "creddit_autorenew", "default_comment_sort", "domain_details",
     "email_chat_request", "email_comment_reply",
     "email_community_discovery", "email_digests", "email_messages",
     "email_new_user_welcome", "email_post_reply", "email_private_message",
     "email_unsubscribe_all", "email_upvote_comment", "email_upvote_post",
     "email_user_new_follower", "email_username_mention",
     "enable_default_themes", "enable_followers",
     "feed_recommendations_enabled", "g", "hide_ads", "hide_downs",
     "hide_from_robots", "hide_ups", "highlight_controversial",
     "highlight_new_comments", "ignore_suggested_sort", "in_redesign_beta",
     "label_nsfw", "lang", "legacy_search",
     "live_bar_recommendations_enabled", "live_orangereds",
     "mark_messages_read", "media", "media_preview", "min_comment_score",
     "min_link_score", "monitor_mentions", "newwindow", "nightmode",
     "no_profanity", "num_comments", "numsites", "organic", "other_theme",
     "over_18", "private_feeds", "profile_opt_out", "public_votes",
     "research", "search_include_over_18", "send_crosspost_messages",
     "send_welcome_messages", "show_flair", "show_gold_expiration",
     "show_link_flair", "show_location_based_recommendations",
     "show_presence", "show_promote", "show_stylesheets", "show_trending",
     "show_twitter", "sms_notifications_enabled", "store_visits",
     "survey_last_seen_time", "theme_selector",
     "third_party_data_personalized_ads", "third_party_personalized_ads",
     "third_party_site_data_personalized_ads",
     "third_party_site_data_personalized_content", "threaded_messages",
     "threaded_modmail", "top_karma_subreddits", "use_global_defaults",
     "video_autoplay", "whatsapp_comment_reply", "whatsapp_enabled"}

\* args maps every key of PrefsKeys to the argument passed, None when the
\* caller left it out
api_v1_me_prefs1(integ, url0, args, up, raises) ==
    LET request_body == Restrict(args, {k \in DOMAIN args : args[k] # None})
        url == <<url0, "/api/v1/me/prefs">>
        query_params == EmptyDict
        g   == HttpPatch(integ, url, request_body, query_params, up, raises)
    IN
    [out |-> IF g.out.kind = "raise" THEN g.out ELSE CheckedJson(g.out),
     requests |-> g.requests, reads |-> g.reads, gets |-> 1,
     log |-> g.log, posted |-> NoResult]

\* the keyword arguments of prefs_friends, which are the keys of its
\* query_params
FriendsKeys == {"after", "before", "count", "limit", "show", "sr_detail"}

prefs_friends(integ, url0, args, up, raises) ==
    LET url == <<url0, "/prefs/friends">>
        query_params == Restrict(args, {k \in DOMAIN args : args[k] # None})
        g   == HttpGet(integ, url, query_params, up, raises)
    IN
    [out |-> IF g.out.kind = "raise" THEN g.out ELSE CheckedJson(g.out),
     requests |-> g.requests, reads |-> g.reads, gets |-> 1,
     log |-> g.log, posted |-> NoResult]

(***************************************************************************)
(* RedditApp.list_tools: a list display of bound methods, each looked up   *)
(* on self when the list is built.                                         *)
(***************************************************************************)
\* the methods the class RedditApp defines
DefinedMethods ==
    {"__init__", "_post", "_get_headers", "get_subreddit_posts",
     "search_subreddits", "get_post_flairs", "create_post",
     "get_comment_by_id", "post_comment", "edit_content", "delete_content",
     "api_v1_me", "api_v1_me_karma", "api_v1_me_prefs", "api_v1_me_prefs1",
     "api_v1_me_trophies", "prefs_friends", "prefs_blocked", "prefs_messaging",
     "prefs_trusted", "api_needs_captcha", "api_v1_collections_collection",
     "api_v1_collections_subreddit_collections",
     "api_v1_subreddit_emoji_emoji_name", "api_v1_subreddit_emojis_all",
     "r_subreddit_api_flair", "r_subreddit_api_flairlist",
     "r_subreddit_api_link_flair", "r_subreddit_api_link_flair_v2",
     "r_subreddit_api_user_flair", "r_subreddit_api_user_flair_v2", "api_info",
     "r_subreddit_api_info", "api_morechildren", "api_saved_categories", "req",
     "best", "by_id_names", "comments_article", "get_post_comments_details",
     "controversial", "duplicates_article", "hot", "new",
     "r_subreddit_comments_article", "r_subreddit_controversial",
     "r_subreddit_hot", "r_subreddit_new", "r_subreddit_random",
     "r_subreddit_rising", "r_subreddit_top", "random", "rising", "top",
     "api_saved_media_text", "api_v1_scopes",
     "r_subreddit_api_saved_media_text", "r_subreddit_about_log",
     "r_subreddit_about_edited", "r_subreddit_about_modqueue",
     "r_subreddit_about_reports", "r_subreddit_about_spam",
     "r_subreddit_about_unmoderated", "r_subreddit_stylesheet", "stylesheet",
     "api_mod_notes1", "api_mod_notes", "api_mod_notes_recent",
     "api_multi_mine", "api_multi_user_username", "api_multi_multipath1",
     "api_multi_multipath", "api_multi_multipath_description",
     "api_multi_multipath_rsubreddit1", "api_multi_multipath_rsubreddit",
     "api_mod_conversations", "api_mod_conversations_conversation_id",
     "api_mod_conversations_conversation_id_highlight",
     "api_mod_conversations_conversation_id_unarchive",
     "api_mod_conversations_conversation_id_unban",
     "api_mod_conversations_conversation_id_unmute",
     "api_mod_conversations_conversation_id_user",
     "api_mod_conversations_subreddits", "api_mod_conversations_unread_count",
     "message_inbox", "message_sent", "message_unread", "search",
     "r_subreddit_search", "api_search_reddit_names",
     "api_subreddit_autocomplete", "api_subreddit_autocomplete_v2",
     "api_v1_subreddit_post_requirements", "r_subreddit_about_banned",
     "r_subreddit_about", "r_subreddit_about_edit",
     "r_subreddit_about_contributors", "r_subreddit_about_moderators",
     "r_subreddit_about_muted", "r_subreddit_about_rules",
     "r_subreddit_about_sticky", "r_subreddit_about_traffic",
     "r_subreddit_about_wikibanned", "r_subreddit_about_wikicontributors",
     "r_subreddit_api_submit_text", "subreddits_mine_where",
     "subreddits_search", "subreddits_where", "api_user_data_by_account_ids",
     "api_username_available", "api_v1_me_friends_username1",
     "api_v1_me_friends_username", "api_v1_user_username_trophies",
     "user_username_about", "user_username_where", "users_search",
     "users_where", "r_subreddit_api_widgets",
     "r_subreddit_api_widget_order_section",
     "r_subreddit_api_widget_widget_id", "r_subreddit_wiki_discussions_page",
     "r_subreddit_wiki_page", "r_subreddit_wiki_pages",
     "r_subreddit_wiki_revisions", "r_subreddit_wiki_revisions_page",
     "r_subreddit_wiki_settings_page", "list_tools"}

\* the names list_tools looks up on self, in the order of its list
ListedTools ==
    <<"get_subreddit_posts", "search_subreddits", "get_post_flairs",
     "create_post", "get_comment_by_id", "post_comment", "edit_content",
     "delete_content", "api_v1_me", "api_v1_me_karma", "api_v1_me_prefs",
     "api_v1_me_prefs1", "api_v1_me_trophies", "prefs_friends",
     "prefs_blocked", "prefs_messaging", "prefs_trusted", "api_needs_captcha",
     "api_v1_collections_collection",
     "api_v1_collections_subreddit_collections",
     "api_v1_subreddit_emoji_emoji_name", "api_v1_subreddit_emojis_all",
     "r_subreddit_api_flair", "r_subreddit_api_flairlist",
     "r_subreddit_api_link_flair", "r_subreddit_api_link_flair_v2",
     "r_subreddit_api_user_flair", "r_subreddit_api_user_flair_v2", "api_info",
     "r_subreddit_api_info", "api_morechildren", "api_saved_categories", "req",
     "best", "by_id_names", "comments_article", "controversial",
     "duplicates_article", "hot", "new", "r_subreddit_comments_article",
     "r_subreddit_controversial", "r_subreddit_hot", "r_subreddit_new",
     "r_subreddit_random", "r_subreddit_rising", "r_subreddit_top", "random",
     "rising", "top", "api_saved_media_text", "api_v1_scopes",
     "r_subreddit_api_saved_media_text", "r_subreddit_about_log",
     "r_subreddit_about_edited", "r_subreddit_about_modqueue",
     "r_subreddit_about_reports", "r_subreddit_about_spam",
     "r_subreddit_about_unmoderated", "r_subreddit_stylesheet", "stylesheet",
     "api_mod_notes1", "api_mod_notes", "api_mod_notes_recent",
     "api_multi_mine", "api_multi_user_username", "api_multi_multipath1",
     "api_multi_multipath", "api_multi_multipath_description",
     "api_multi_multipath_rsubreddit1", "api_multi_multipath_rsubreddit",
     "api_mod_conversations", "api_mod_conversations_conversation_id",
     "api_mod_conversations_conversation_id_highlight",
     "api_mod_conversations_conversation_id_unarchive",
     "api_mod_conversations_conversation_id_unban",
     "api_mod_conversations_conversation_id_unmute",
     "api_mod_conversations_conversation_id_user",
     "api_mod_conversations_subreddits", "api_mod_conversations_unread_count",
     "message_inbox", "message_sent", "message_unread", "search",
     "r_subreddit_search", "api_search_reddit_names",
     "api_subreddit_autocomplete", "api_subreddit_autocomplete_v2",
     "api_v1_subreddit_post_requirements", "r_subreddit_about_banned",
     "r_subreddit_about", "r_subreddit_about_edit",
     "r_subreddit_about_contributors", "r_subreddit_about_moderators",
     "r_subreddit_about_muted", "r_subreddit_about_rules",
     "r_subreddit_about_sticky", "r_subreddit_about_traffic",
     "r_subreddit_about_wikibanned", "r_subreddit_about_wikicontributors",
     "r_subreddit_api_submit_text", "subreddits_mine_where",
     "subreddits_search", "subreddits_where", "api_user_data_by_account_ids",
     "api_username_available", "api_v1_me_friends_username1",
     "api_v1_me_friends_username", "api_v1_user_username_trophies",
     "user_username_about", "user_username_where", "users_search",
     "users_where", "r_subreddit_api_widgets",
     "r_subreddit_api_widget_order_section",
     "r_subreddit_api_widget_widget_id", "r_subreddit_wiki_discussions_page",
     "r_subreddit_wiki_page", "r_subreddit_wiki_pages",
     "r_subreddit_wiki_revisions", "r_subreddit_wiki_revisions_page",
     "r_subreddit_wiki_settings_page", "get_post_comments_json">>

\* the transport helpers RedditApp inherits from APIApplication and calls
InheritedMethods == {"_get", "_patch", "_delete"}

\* the defined methods whose name starts with an underscore
PrivateMethods == {"__init__", "_post", "_get_headers"}

\* self.<name>: the bound method, or AttributeError when neither the class
\* nor its base defines the name
LookupFails(name) == name \notin DefinedMethods \cup InheritedMethods

ReturnTools(names) == [kind |-> "return", type |-> "tools", tools |-> names]

list_tools ==
    IF \E i \in 1..Len(ListedTools) : LookupFails(ListedTools[i]) THEN
        LET i == CHOOSE k \in 1..Len(ListedTools) :
                    /\ LookupFails(ListedTools[k])
                    /\ \A j \in 1..(k - 1) : ~LookupFails(ListedTools[j])
        IN NoEffects(Raise("AttributeError",
                           <<"'RedditApp' object has no attribute '",
                             ListedTools[i], "'">>))
    ELSE NoEffects(ReturnTools(ListedTools))

(***************************************************************************)
(* Inputs of the model: the arguments callers pass and the answers the     *)
(* upstream gives.                                                         *)
(***************************************************************************)
Subreddits == {"python"}

Queries == {"python"}

Limits == {MinLimit - 1, MinLimit, 2, MaxLimit, MaxLimit + 1}

Timeframes == {"day", "decade", ""}

Sorts == {"relevance", "top"}

PostA == [id |-> "a", title |-> "A", author |-> "u1", score |-> 10,
          permalink |-> "/r/python/a"]

PostB == [id |-> "b", title |-> "B", author |-> "u2", score |-> 5,
          permalink |-> "/r/python/b"]

PostFields == {"title", "author", "score", "permalink"}

PostDatas ==
    {Restrict(PostA, S \cup {"id"}) : S \in SUBSET PostFields}
    \cup {PostB, [PostA EXCEPT !.permalink = ""], [PostA EXCEPT !.score = 0]}

PostChildren == {[kind |-> "t3", data |-> d] : d \in PostDatas} \cup {[kind |-> "t3"]}

SubA == [id |-> "s", display_name |-> "python", title |-> "Python",
         subscribers |-> 1234567, public_description |-> "News about Python"]

SubFields == {"display_name", "title", "subscribers", "public_description"}

SubDatas ==
    {Restrict(SubA, S \cup {"id"}) : S \in SUBSET SubFields}
    \cup {[SubA EXCEPT !.subscribers = 0], [SubA EXCEPT !.subscribers = 1000],
          [SubA EXCEPT !.public_description = ""],
          [SubA EXCEPT !.public_description = "  "],
          [SubA EXCEPT !.public_description = "", !.title = ""]}

SubChildren == {[kind |-> "t5", data |-> d] : d \in SubDatas} \cup {[kind |-> "t5"]}

Listing(children) == [kind |-> "Listing", data |-> [after |-> "", children |-> children]]

ErrorPayloads(Children) ==
    {[error |-> 403, message |-> "Forbidden"], [error |-> 404]}
    \cup {[error |-> 403, message |-> "Forbidden",
           data |-> [after |-> "", children |-> <<c>>]] : c \in Children}

ListingPayloads(Children) ==
    {Listing(cs) : cs \in SeqsUpTo(Children, MaxChildren)}
    \cup {[kind |-> "Listing", data |-> [after |-> ""]], [kind |-> "Listing"]}
    \cup ErrorPayloads(Children)

ErrorStatuses == {403, 429, 500}

\* what the upstream may answer to a GET of a listing
GetAnswers(Children) ==
    {Response(200, "{json}", TRUE, p) : p \in ListingPayloads(Children)}
    \cup {Response(200, "<html>", FALSE, NoJson)}
    \cup {Response(s, "{json}", TRUE, [error |-> s, message |-> "Error"]) :
            s \in ErrorStatuses}
    \cup {Response(s, "", FALSE, NoJson) : s \in ErrorStatuses}
    \cup {TransportError}

SubmitPayloads ==
    {[json |-> [errors |-> <<>>, data |-> [id |-> "x"]]],
     [json |-> [data |-> [id |-> "x"]]],
     [success |-> TRUE],
     [json |-> [errors |-> << <<"RATELIMIT", "wait">> >>]],
     [json |-> [errors |-> << <<"RATELIMIT", "wait">>, <<"NO_TEXT", "missing">> >>]],
     [json |-> [errors |-> << <<"BAD_SR_NAME", "invalid", "sr">> >>]]}

\* what the upstream may answer to a POST
PostAnswers ==
    {Response(200, "{json}", TRUE, p) : p \in SubmitPayloads}
    \cup {Response(200, "", FALSE, NoJson)}
    \cup {Response(429, t, FALSE, NoJson) : t \in {"", "Too Many Requests"}}
    \cup {Response(429, "{json}", TRUE, [error |-> 429, message |-> "Too Many Requests"])}
    \cup {Response(s, "{json}", TRUE, [error |-> s, message |-> "Error"]) :
            s \in {403, 500}}
    \cup {Response(s, "", FALSE, NoJson) : s \in {201, 299, 300, 404}}
    \cup {TransportError}

\* what the upstream may answer to a generated endpoint operation
EndpointAnswers ==
    {Response(200, "{json}", TRUE, [ok |-> TRUE]),
     Response(200, "", FALSE, NoJson)}
    \cup {Response(s, "{json}", TRUE, [error |-> s, message |-> "Error"]) :
            s \in ErrorStatuses}
    \cup {TransportError}

PathSubreddits == {None, "python"}

Multipaths == {None, "user/bob/m/news"}

CommentA == [id |-> "def", author |-> "u1", body |-> "first", score |-> 3]

CommentB == [id |-> "ghi", author |-> "u2", body |-> "second", score |-> 1]

CommentChildren ==
    {[kind |-> "t1", data |-> d] : d \in {CommentA, CommentB}}
    \cup {[kind |-> "t1"]}

\* the preferences a caller sets in the model; the others are left out
PrefsSet == {"accept_pms", "lang", "over_18"}

\* the arguments of api_v1_me_prefs1: a value or None for each of PrefsSet,
\* None for every other key
PrefsArgs ==
    {[k \in PrefsKeys |-> IF k \in PrefsSet THEN a[k] ELSE None] :
        a \in [PrefsSet -> {None, "", "whitelisted"}]}

FriendsArgs == [FriendsKeys -> {None, "25"}]

EmojiNames == {None, "smile"}

ConversationIds == {None, "c1"}

NoAnswer == [kind |-> "none", status |-> 0, text |-> "", isJson |-> FALSE,
             json |-> NoJson]

NoCall == [op |-> "none"]

Ids == {"t3_abc", "t1_def"}

Texts == {None, "", "hello"}

(***************************************************************************)
(* The state machine: the application is constructed once; the hosting     *)
(* server then invokes one operation at a time and takes its outcome.      *)
(***************************************************************************)
\* the clients the server runs operations for at the same time
Callers == {"caller1", "caller2"}

\* a caller between two calls
IdleCaller == [pc |-> "idle", call |-> NoCall, result |-> NoResult]

\* the connection httpx.post opens for one call: the request written to it
\* and the answer the upstream gives to that request
NoExchange == [state |-> "closed", requests |-> <<>>, answer |-> NoAnswer]

TypeOK ==
    /\ integration \in Integrations
    /\ pc \in {"idle", "done"}
    /\ getCalls \in 0..1
    /\ credReads \in 0..1

Init ==
    /\ integration \in Integrations
    /\ base_api_url = BaseUrl
    /\ base_url = BaseUrl
    /\ pc = "idle"
    /\ call = NoCall
    /\ upstream = NoAnswer
    /\ requests = <<>>
    /\ getCalls = 0
    /\ credReads = 0
    /\ log = <<>>
    /\ posted = NoResult
    /\ result = NoResult
    /\ callers = [c \in Callers |-> IdleCaller]
    /\ wire = [c \in Callers |-> NoExchange]

\* the upstream answers only a call that sends it a request: e0 is the call
\* evaluated up to the point where the answer is read
AnswersTo(e0, answers) == IF e0.requests = <<>> THEN {NoAnswer} ELSE answers

\* the inherited _get meets its choice only on a non-2xx status
RaiseChoices(up) == IF IsSuccess(up.status) THEN {TRUE} ELSE BOOLEAN

\* variant: an invocation that sent a request remembers the URL it used
InvokeRememberingUrl(c, up, e) ==
    /\ pc' = "done"
    /\ call' = c
    /\ upstream' = IF e.requests = <<>> THEN NoAnswer ELSE up
    /\ requests' = e.requests
    /\ getCalls' = e.gets
    /\ credReads' = e.reads
    /\ log' = e.log
    /\ posted' = e.posted
    /\ result' = e.out
    /\ base_url' = IF e.requests = <<>> THEN base_url ELSE Str(e.requests[1].url)
    /\ UNCHANGED <<integration, base_api_url, callers, wire>>

\* the effects e of one whole invocation c, answered by up
Invoke(c, up, e) ==
    /\ pc' = "done"
    /\ call' = c
    /\ upstream' = IF e.requests = <<>> THEN NoAnswer ELSE up
    /\ requests' = e.requests
    /\ getCalls' = e.gets
    /\ credReads' = e.reads
    /\ log' = e.log
    /\ posted' = e.posted
    /\ result' = e.out
    /\ UNCHANGED <<integration, base_api_url, base_url, callers, wire>>

GetSubredditPosts ==
    /\ pc = "idle"
    /\ \E subreddit \in Subreddits, limit \in Limits, timeframe \in Timeframes :
       \E up \in AnswersTo(get_subreddit_posts(integration, base_api_url,
                              subreddit, limit, timeframe, NoAnswer, TRUE),
                           GetAnswers(PostChildren)) :
       \E raisesForStatus \in RaiseChoices(up) :
          Invoke([op |-> "get_subreddit_posts", subreddit |-> subreddit,
                  limit |-> limit, timeframe |-> timeframe],
                 up,
                 get_subreddit_posts(integration, base_api_url, subreddit,
                                     limit, timeframe, up, raisesForStatus))

SearchSubreddits ==
    /\ pc = "idle"
    /\ \E query \in Queries, limit \in Limits, sort \in Sorts :
       \E up \in AnswersTo(search_subreddits(integration, base_api_url, query,
                              limit, sort, NoAnswer, TRUE),
                           GetAnswers(SubChildren)) :
       \E raisesForStatus \in RaiseChoices(up) :
          Invoke([op |-> "search_subreddits", query |-> query,
                  limit |-> limit, sort |-> sort],
                 up,
                 search_subreddits(integration, base_api_url, query, limit,
                                   sort, up, raisesForStatus))

CreatePost ==
    /\ pc = "idle"
    /\ \E kind \in {"self", "link", "image"}, text \in Texts,
          url \in {None, "", "https://example.com/x.png"},
          flair_id \in {None, "f1"} :
       \E up \in AnswersTo(create_post(integration, base_api_url, "python", "T",
                              kind, text, url, flair_id, NoAnswer),
                           PostAnswers) :
          Invoke([op |-> "create_post", subreddit |-> "python", title |-> "T",
                  kind |-> kind, text |-> text, url |-> url,
                  flair_id |-> flair_id],
                 up,
                 create_post(integration, base_api_url, "python", "T", kind,
                             text, url, flair_id, up))

PostComment ==
    /\ pc = "idle"
    /\ \E parent_id \in Ids, text \in {"hello"} :
       \E up \in AnswersTo(post_comment(integration, base_api_url, parent_id,
                              text, NoAnswer),
                           PostAnswers) :
          Invoke([op |-> "post_comment", parent_id |-> parent_id, text |-> text],
                 up,
                 post_comment(integration, base_api_url, parent_id, text, up))

EditContent ==
    /\ pc = "idle"
    /\ \E content_id \in Ids, text \in {"hello"} :
       \E up \in AnswersTo(edit_content(integration, base_api_url, content_id,
                              text, NoAnswer),
                           PostAnswers) :
          Invoke([op |-> "edit_content", content_id |-> content_id, text |-> text],
                 up,
                 edit_content(integration, base_api_url, content_id, text, up))

DeleteContent ==
    /\ pc = "idle"
    /\ \E content_id \in Ids :
       \E up \in AnswersTo(delete_content(integration, base_api_url, content_id,
                              NoAnswer),
                           PostAnswers) :
          Invoke([op |-> "delete_content", content_id |-> content_id],
                 up,
                 delete_content(integration, base_api_url, content_id, up))

EmojiByName ==
    /\ pc = "idle"
    /\ \E subreddit \in PathSubreddits, emoji_name \in EmojiNames :
       \E up \in AnswersTo(api_v1_subreddit_emoji_emoji_name(integration, base_url,
                              subreddit, emoji_name, NoAnswer, TRUE),
                           EndpointAnswers) :
       \E raisesForStatus \in RaiseChoices(up) :
          Invoke([op |-> "api_v1_subreddit_emoji_emoji_name",
                  subreddit |-> subreddit, emoji_name |-> emoji_name],
                 up,
                 api_v1_subreddit_emoji_emoji_name(integration, base_url,
                    subreddit, emoji_name, up, raisesForStatus))

ModUnarchive ==
    /\ pc = "idle"
    /\ \E conversation_id \in ConversationIds :
       \E up \in AnswersTo(api_mod_conversations_conversation_id_unarchive(
                              integration, base_url, conversation_id, NoAnswer),
                           EndpointAnswers) :
          Invoke([op |-> "api_mod_conversations_conversation_id_unarchive",
                  conversation_id |-> conversation_id],
                 up,
                 api_mod_conversations_conversation_id_unarchive(
                    integration, base_url, conversation_id, up))

ModUnban ==
    /\ pc = "idle"
    /\ \E conversation_id \in ConversationIds :
       \E up \in AnswersTo(api_mod_conversations_conversation_id_unban(
                              integration, base_url, conversation_id, NoAnswer),
                           EndpointAnswers) :
          Invoke([op |-> "api_mod_conversations_conversation_id_unban",
                  conversation_id |-> conversation_id],
                 up,
                 api_mod_conversations_conversation_id_unban(
                    integration, base_url, conversation_id, up))

ModUnmute ==
    /\ pc = "idle"
    /\ \E conversation_id \in ConversationIds :
       \E up \in AnswersTo(api_mod_conversations_conversation_id_unmute(
                              integration, base_url, conversation_id, NoAnswer),
                           EndpointAnswers) :
          Invoke([op |-> "api_mod_conversations_conversation_id_unmute",
                  conversation_id |-> conversation_id],
                 up,
                 api_mod_conversations_conversation_id_unmute(
                    integration, base_url, conversation_id, up))

ListTools ==
    /\ pc = "idle"
    /\ Invoke([op |-> "list_tools"], NoAnswer, list_tools)

MePrefs1 ==
    /\ pc = "idle"
    /\ \E args \in PrefsArgs :
       \E up \in AnswersTo(api_v1_me_prefs1(integration, base_url, args,
                              NoAnswer, TRUE),
                           EndpointAnswers) :
       \E raisesForStatus \in RaiseChoices(up) :
          Invoke([op |-> "api_v1_me_prefs1", args |-> args],
                 up,
                 api_v1_me_prefs1(integration, base_url, args, up,
                                  raisesForStatus))

PrefsFriends ==
    /\ pc = "idle"
    /\ \E args \in FriendsArgs :
       \E up \in AnswersTo(prefs_friends(integration, base_url, args,
                              NoAnswer, TRUE),
                           EndpointAnswers) :
       \E raisesForStatus \in RaiseChoices(up) :
          Invoke([op |-> "prefs_friends", args |-> args],
                 up,
                 prefs_friends(integration, base_url, args, up, raisesForStatus))

GetCommentById ==
    /\ pc = "idle"
    /\ \E comment_id \in {"t1_def"} :
       \E up \in AnswersTo(get_comment_by_id(integration, comment_id, NoAnswer, TRUE),
                           GetAnswers(CommentChildren)) :
       \E raisesForStatus \in RaiseChoices(up) :
          Invoke([op |-> "get_comment_by_id", comment_id |-> comment_id],
                 up,
                 get_comment_by_id(integration, comment_id, up, raisesForStatus))

MultiSubreddit ==
    /\ pc = "idle"
    /\ \E multipath \in Multipaths, subreddit \in PathSubreddits :
       \E up \in AnswersTo(api_multi_multipath_rsubreddit1(integration, base_url,
                              multipath, subreddit, NoAnswer, TRUE),
                           EndpointAnswers) :
       \E raisesForStatus \in RaiseChoices(up) :
          Invoke([op |-> "api_multi_multipath_rsubreddit1",
                  multipath |-> multipath, subreddit |-> subreddit],
                 up,
                 api_multi_multipath_rsubreddit1(integration, base_url,
                    multipath, subreddit, up, raisesForStatus))

\* the hosting server hands the outcome to its client; nothing is retained
ReturnToCaller ==
    /\ pc = "done"
    /\ pc' = "idle"
    /\ call' = NoCall
    /\ upstream' = NoAnswer
    /\ requests' = <<>>
    /\ getCalls' = 0
    /\ credReads' = 0
    /\ log' = <<>>
    /\ posted' = NoResult
    /\ result' = NoResult
    /\ UNCHANGED <<integration, base_api_url, base_url, callers, wire>>

Next ==
    \/ GetSubredditPosts
    \/ SearchSubreddits
    \/ CreatePost
    \/ PostComment
    \/ EditContent
    \/ DeleteContent
    \/ EmojiByName
    \/ ModUnarchive
    \/ ModUnban
    \/ ModUnmute
    \/ ListTools
    \/ MePrefs1
    \/ PrefsFriends
    \/ GetCommentById
    \/ MultiSubreddit
    \/ ReturnToCaller

Spec == Init /\ [][Next]_vars

(***************************************************************************)
(* Two clients served at the same time.  The operations keep everything in *)
(* local variables and share only the fields of the RedditApp instance,    *)
(* which they read.  A call runs up to its httpx.post, which opens a       *)
(* connection of its own and blocks on it; while it waits the other        *)
(* caller's steps may take place.  When the answer arrives the call runs   *)
(* to its end.                                                             *)
(***************************************************************************)
soloVars == <<pc, call, upstream, requests, getCalls, credReads, log, posted,
              result>>

\* the calls the concurrent callers make
ConcCalls ==
    {[op |-> "post_comment", parent_id |-> i, text |-> "hello"] : i \in Ids}
    \cup {[op |-> "delete_content", content_id |-> i] : i \in Ids}

\* the operation of call k run with the upstream's answer up
RunCall(integ, api_url, k, up) ==
    CASE k.op = "post_comment" ->
            post_comment(integ, api_url, k.parent_id, k.text, up)
      [] k.op = "delete_content" ->
            delete_content(integ, api_url, k.content_id, up)

\* variant: the two calls read their answers from one shared connection
MineShared(c, conn) == conn \in Callers

\* httpx.post reads the response from the connection it opened itself
Mine(c, conn) == conn = c

\* caller c invokes an operation, which runs up to the request it sends; a
\* call that fails before any request ends at once
BeginCall(c) ==
    /\ callers[c].pc = "idle"
    /\ \E k \in ConcCalls :
          LET e0 == RunCall(integration, base_api_url, k, NoAnswer) IN
          IF e0.requests = <<>> THEN
              /\ callers' = [callers EXCEPT ![c] =
                                [pc |-> "done", call |-> k, result |-> e0.out]]
              /\ wire' = wire
          ELSE
              /\ callers' = [callers EXCEPT ![c] =
                                [pc |-> "waiting", call |-> k, result |-> NoResult]]
              /\ wire' = [wire EXCEPT ![c] =
                             [state |-> "sent", requests |-> e0.requests,
                              answer |-> NoAnswer]]
    /\ UNCHANGED <<integration, base_api_url, base_url, soloVars>>

\* the upstream answers the request written to connection conn
Respond(conn) ==
    /\ wire[conn].state = "sent"
    /\ \E up \in PostAnswers :
          wire' = [wire EXCEPT ![conn].state = "answered", ![conn].answer = up]
    /\ UNCHANGED <<integration, base_api_url, base_url, soloVars, callers>>

\* httpx.post returns (or raises) in caller c, and the call runs to its end
Receive(c) ==
    /\ callers[c].pc = "waiting"
    /\ \E conn \in Callers :
          /\ Mine(c, conn)
          /\ wire[conn].state = "answered"
          /\ callers' = [callers EXCEPT
                ![c].pc = "done",
                ![c].result = RunCall(integration, base_api_url, callers[c].call,
                                      wire[conn].answer).out]
          /\ wire' = [wire EXCEPT ![conn].state = "read"]
    /\ UNCHANGED <<integration, base_api_url, base_url, soloVars>>

\* the outcome is handed to client c and the connection is closed
ReturnToClient(c) ==
    /\ callers[c].pc = "done"
    /\ callers' = [callers EXCEPT ![c] = IdleCaller]
    /\ wire' = [wire EXCEPT ![c] = NoExchange]
    /\ UNCHANGED <<integration, base_api_url, base_url, soloVars>>

NextConc ==
    \/ \E c \in Callers : BeginCall(c)
    \/ \E conn \in Callers : Respond(conn)
    \/ \E c \in Callers : Receive(c)
    \/ \E c \in Callers : ReturnToClient(c)

SpecConc == Init /\ [][NextConc]_vars

(***************************************************************************)
(* Vocabulary of the properties.                                           *)
(***************************************************************************)
Finished(op) == pc = "done" /\ call.op = op

AllowedTimeframes == {"hour", "day", "week", "month", "year", "all"}

AllowedSorts == {"relevance", "activity"}

\* the enumerated parameter of the finished listing call is allowed
EnumAllowed ==
    \/ Finished("get_subreddit_posts") /\ call.timeframe \in AllowedTimeframes
    \/ Finished("search_subreddits") /\ call.sort \in AllowedSorts

IsText(r) == r.kind = "return" /\ r.type = "text"

ValidationPrefixes ==
    {"Error: Invalid timeframe '", "Error: Invalid sort option '",
     "Error: Invalid limit '"}

IsValidationError(r) ==
    IsText(r) /\ Len(r.text) > 0 /\ r.text[1] \in ValidationPrefixes

\* the credential provider is configured and yields an access token
CredentialsUsable ==
    /\ integration.configured
    /\ integration.authorized
    /\ "access_token" \in DOMAIN integration.credentials

NoRequest == requests = <<>> /\ getCalls = 0

(***************************************************************************)
(* C1: in get_subreddit_posts and search_subreddits a timeframe, resp.     *)
(* sort, outside the allowed set makes the call return an error string     *)
(* that contains the rejected value and every allowed value, and no HTTP   *)
(* request is issued.                                                      *)
(***************************************************************************)
C1_EnumRejected ==
    /\ (Finished("get_subreddit_posts") /\ call.timeframe \notin AllowedTimeframes)
        => /\ IsText(result)
           /\ result.text[1] = "Error: Invalid timeframe '"
           /\ call.timeframe \in Range(Tail(result.text))
           /\ \A v \in AllowedTimeframes : v \in Range(Tail(result.text))
           /\ NoRequest
    /\ (Finished("search_subreddits") /\ call.sort \notin AllowedSorts)
        => /\ IsText(result)
           /\ result.text[1] = "Error: Invalid sort option '"
           /\ call.sort \in Range(Tail(result.text))
           /\ \A v \in AllowedSorts : v \in Range(Tail(result.text))
           /\ NoRequest

C1_Witness ==
    /\ Finished("search_subreddits")
    /\ call.sort = "top"
    /\ call.limit = 2
    /\ IsText(result)

(***************************************************************************)
(* C2: with an allowed timeframe/sort, a limit outside [1, 100] makes the  *)
(* call return a validation-error string without any HTTP request; a limit *)
(* inside [1, 100], the bounds 1 and 100 included, is never answered by a  *)
(* validation error and the call goes on to its request: _get is called    *)
(* once, and one GET goes out on the wire whenever the executor's          *)
(* precondition holds (the credential provider yields an access token).    *)
(***************************************************************************)
C2_LimitRange ==
    EnumAllowed =>
        /\ (call.limit < 1 \/ call.limit > 100)
            => /\ IsValidationError(result)
               /\ result.text[1] = "Error: Invalid limit '"
               /\ NoRequest
        /\ (call.limit >= 1 /\ call.limit <= 100)
            => /\ ~IsValidationError(result)
               /\ getCalls = 1
               /\ CredentialsUsable
                    => /\ Len(requests) = 1
                       /\ requests[1].method = "GET"
                       /\ requests[1].params.limit = call.limit

C2_Witness ==
    /\ Finished("get_subreddit_posts")
    /\ call.timeframe = "day"
    /\ call.limit = 100
    /\ Len(requests) = 1

(***************************************************************************)
(* C3: when the response to the POST issued by _post has status 429, _post *)
(* returns text to its caller and raises nothing: the response body when   *)
(* it is not empty, the fixed sentence when it is.                         *)
(***************************************************************************)
PostAnswered429 ==
    /\ pc = "done"
    /\ Len(requests) = 1
    /\ requests[1].method = "POST"
    /\ upstream.kind = "response"
    /\ upstream.status = 429

C3_Post429ReturnsText ==
    PostAnswered429 =>
        /\ IsText(posted)
        /\ upstream.text # "" => posted.text = <<upstream.text>>
        /\ upstream.text = ""
            => posted.text = <<"Rate limit exceeded. Please try again later.">>

C3_Witness ==
    /\ PostAnswered429
    /\ upstream.text = ""
    /\ IsText(posted)

(***************************************************************************)
(* C4: when the upstream answers 429 to create_post, post_comment,         *)
(* edit_content or delete_content, the operation returns the rate-limit    *)
(* text (the body, or the fixed sentence for an empty body) to its caller  *)
(* and raises nothing.                                                     *)
(***************************************************************************)
C4_RateLimitReturned ==
    (PostAnswered429 /\ call.op \in {"create_post", "post_comment",
                                     "edit_content", "delete_content"})
        => /\ IsText(result)
           /\ result.text = <<IF upstream.text = ""
                              THEN "Rate limit exceeded. Please try again later."
                              ELSE upstream.text>>

(***************************************************************************)
(* Vocabulary of the listing properties.                                   *)
(***************************************************************************)
ListingCall == Finished("get_subreddit_posts") \/ Finished("search_subreddits")

\* the call sent its request and was answered by a JSON payload that the
\* operation got to read: always so for a 2xx answer
GotPayload ==
    /\ ListingCall
    /\ Len(requests) = 1
    /\ upstream.kind = "response"
    /\ upstream.isJson
    /\ IsSuccess(upstream.status) \/ result.kind = "return"

payload == upstream.json

ChildrenOf(p) ==
    IF "data" \in DOMAIN p /\ "children" \in DOMAIN p["data"]
    THEN p["data"]["children"] ELSE <<>>

\* field f of the record wrapped by a child, or dflt when the field or the
\* record is missing
FieldOr(child, f, dflt) ==
    IF "data" \in DOMAIN child /\ f \in DOMAIN child["data"]
    THEN child["data"][f] ELSE dflt

HasField(child, f) == "data" \in DOMAIN child /\ f \in DOMAIN child["data"]

\* a text cut at its newline tokens
RECURSIVE SplitLines(_)
SplitLines(tokens) ==
    IF tokens = <<>> THEN << <<>> >>
    ELSE LET rest == SplitLines(Tail(tokens)) IN
         IF Head(tokens) = "\n" THEN << <<>> >> \o rest
         ELSE << <<Head(tokens)>> \o Head(rest) >> \o Tail(rest)

\* a numbered entry: <number> ". " ...
IsEntryLine(line) == Len(line) >= 2 /\ line[2] \in {". \"", ". r/"}

EntryLines(text) == SelectSeq(SplitLines(text), IsEntryLine)

C6_NoResultsSentence ==
    (GotPayload /\ "error" \notin DOMAIN payload /\ Len(ChildrenOf(payload)) = 0)
        => /\ IsText(result)
           /\ Str(result.text) # ""
           /\ call.op = "get_subreddit_posts"
                => result.text = <<"No top posts found in r/", call.subreddit,
                                   " for the timeframe '", call.timeframe, "'.">>
           /\ call.op = "search_subreddits"
                => result.text = <<"No subreddits found matching the query '",
                                   call.query, "'.">>

C6_Witness ==
    /\ GotPayload
    /\ call.op = "search_subreddits"
    /\ "error" \notin DOMAIN payload
    /\ "data" \notin DOMAIN payload
    /\ IsText(result)

(***************************************************************************)
(* C7: for a payload with a top-level error field, whatever else it holds  *)
(* (a non-empty data.children included), the two operations return a       *)
(* string made of the error code and the message (empty when absent),      *)
(* render no listing entry and raise nothing.                              *)
(***************************************************************************)
C7_ErrorPayload ==
    (GotPayload /\ "error" \in DOMAIN payload)
        => /\ IsText(result)
           /\ Len(result.text) = 4
           /\ result.text[1] = (IF call.op = "get_subreddit_posts"
                                THEN "Error from Reddit API: "
                                ELSE "Error from Reddit API during search: ")
           /\ result.text[2] = ToString(payload["error"])
           /\ result.text[4] = (IF "message" \in DOMAIN payload
                                THEN payload["message"] ELSE "")
           /\ EntryLines(result.text) = <<>>

C7_Witness ==
    /\ GotPayload
    /\ call.op = "get_subreddit_posts"
    /\ "error" \in DOMAIN payload
    /\ Len(ChildrenOf(payload)) = 1
    /\ IsText(result)

(***************************************************************************)
(* The lines of a posts listing: the header, a blank line, then for the    *)
(* k-th child the entry line followed by its link line.                    *)
(***************************************************************************)
PostsListing ==
    /\ GotPayload
    /\ call.op = "get_subreddit_posts"
    /\ "error" \notin DOMAIN payload
    /\ Len(ChildrenOf(payload)) >= 1

EntryOf(k) == SplitLines(result.text)[2 * k + 1]

LinkOf(k) == SplitLines(result.text)[2 * k + 2]

\* the entry line of the k-th child shows title, author and score with
\* their fallbacks
EntryShows(k, child) ==
    /\ EntryOf(k) = <<ToString(k), ". \"", FieldOr(child, "title", "No Title"),
                      "\" by u/", FieldOr(child, "author", "Unknown Author"),
                      " (Score: ",
                      IF HasField(child, "score")
                      THEN ToString(child["data"]["score"]) ELSE "0",
                      ")">>

(***************************************************************************)
(* C8 as stated: every item is rendered whatever subset of title, author,  *)
(* score and permalink it lacks (an item without data record included),    *)
(* with "No Title", "Unknown Author", 0 and "No Link" for the missing      *)
(* fields, the present fields as received, and a present permalink         *)
(* prefixed with https://www.reddit.com.                                   *)
(***************************************************************************)
C8_Original ==
    PostsListing =>
        /\ IsText(result)
        /\ Len(SplitLines(result.text)) = 2 * Len(ChildrenOf(payload)) + 2
        /\ \A k \in 1..Len(ChildrenOf(payload)) :
            LET child == ChildrenOf(payload)[k] IN
            /\ EntryShows(k, child)
            /\ HasField(child, "permalink")
                => LinkOf(k) = <<"   Link: ", "https://www.reddit.com",
                                 child["data"]["permalink"]>>
            /\ ~HasField(child, "permalink")
                => LinkOf(k) = <<"   Link: ", "No Link">>

(***************************************************************************)
(* C8, amended: as above, except that the permalink is prefixed with       *)
(* https://www.reddit.com when it is present and not empty; a permalink    *)
(* that is present but empty renders as "No Link", like a missing one.     *)
(***************************************************************************)
C8_Fallbacks ==
    PostsListing =>
        /\ IsText(result)
        /\ Len(SplitLines(result.text)) = 2 * Len(ChildrenOf(payload)) + 2
        /\ \A k \in 1..Len(ChildrenOf(payload)) :
            LET child == ChildrenOf(payload)[k] IN
            /\ EntryShows(k, child)
            /\ (HasField(child, "permalink") /\ child["data"]["permalink"] # "")
                => LinkOf(k) = <<"   Link: ", "https://www.reddit.com",
                                 child["data"]["permalink"]>>
            /\ (~HasField(child, "permalink") \/ FieldOr(child, "permalink", "") = "")
                => LinkOf(k) = <<"   Link: ", "No Link">>

C8_Witness ==
    /\ PostsListing
    /\ Len(ChildrenOf(payload)) = 2
    /\ "data" \notin DOMAIN ChildrenOf(payload)[1]
    /\ HasField(ChildrenOf(payload)[2], "permalink")
    /\ ~HasField(ChildrenOf(payload)[2], "title")
    /\ IsText(result)

(***************************************************************************)
(* C9: get_subreddit_posts("python", limit 2, timeframe "day") answered by *)
(* the two children A/u1/10//r/python/a and B/u2/5//r/python/b returns the *)
(* header line "Top 2 posts from r/python (timeframe: day):" followed by   *)
(* the entry line and the link line of item 1, then of item 2.  The text   *)
(* is compared as a whole: the header is followed by a blank line and each *)
(* link line is indented by three spaces.                                  *)
(***************************************************************************)
ExampleCall ==
    /\ GotPayload
    /\ call.op = "get_subreddit_posts"
    /\ call.subreddit = "python"
    /\ call.limit = 2
    /\ call.timeframe = "day"
    /\ "error" \notin DOMAIN payload
    /\ Len(ChildrenOf(payload)) = 2
    /\ \A k \in 1..2 :
        /\ "data" \in DOMAIN ChildrenOf(payload)[k]
        /\ DOMAIN ChildrenOf(payload)[k]["data"] =
                {"id", "title", "author", "score", "permalink"}
    /\ ChildrenOf(payload)[1]["data"]["title"] = "A"
    /\ ChildrenOf(payload)[1]["data"]["author"] = "u1"
    /\ ChildrenOf(payload)[1]["data"]["score"] = 10
    /\ ChildrenOf(payload)[1]["data"]["permalink"] = "/r/python/a"
    /\ ChildrenOf(payload)[2]["data"]["title"] = "B"
    /\ ChildrenOf(payload)[2]["data"]["author"] = "u2"
    /\ ChildrenOf(payload)[2]["data"]["score"] = 5
    /\ ChildrenOf(payload)[2]["data"]["permalink"] = "/r/python/b"

C9_Example ==
    ExampleCall =>
        /\ IsText(result)
        /\ Str(result.text) =
              "Top 2 posts from r/python (timeframe: day):\n\n"
              \o "1. \"A\" by u/u1 (Score: 10)\n"
              \o "   Link: https://www.reddit.com/r/python/a\n"
              \o "2. \"B\" by u/u2 (Score: 5)\n"
              \o "   Link: https://www.reddit.com/r/python/b"

C9_Witness == ExampleCall /\ IsText(result)

(***************************************************************************)
(* The subscriber count shown by the k-th entry of a subreddit listing.    *)
(***************************************************************************)
SubsListing ==
    /\ GotPayload
    /\ call.op = "search_subreddits"
    /\ "error" \notin DOMAIN payload
    /\ Len(ChildrenOf(payload)) >= 1
    /\ IsText(result)
    /\ Len(EntryLines(result.text)) = Len(ChildrenOf(payload))

CountShown(k) == EntryLines(result.text)[k][5]

\* the decimal text of the counts of the model, thousands separated
Commas(n) ==
    CASE n = 0 -> "0"
      [] n = 1000 -> "1,000"
      [] n = 1234567 -> "1,234,567"

(***************************************************************************)
(* C10 as stated: an entry whose subscribers field is absent shows         *)
(* "Unknown", an entry whose field is present shows the number itself, 0   *)
(* included, so that zero subscribers and no count never look the same.    *)
(***************************************************************************)
C10_Original ==
    SubsListing =>
        \A k \in 1..Len(ChildrenOf(payload)) :
            LET child == ChildrenOf(payload)[k] IN
            /\ ~HasField(child, "subscribers") => CountShown(k) = "Unknown"
            /\ HasField(child, "subscribers")
                => CountShown(k) = Commas(child["data"]["subscribers"])

(***************************************************************************)
(* C10, amended: an entry whose subscribers field is absent, or present    *)
(* with the value 0, shows "Unknown"; an entry whose field is present and  *)
(* not zero shows the number with thousands separators.  An item with zero *)
(* subscribers and an item without count produce the same count text.      *)
(***************************************************************************)
C10_CountShown ==
    SubsListing =>
        \A k \in 1..Len(ChildrenOf(payload)) :
            LET child == ChildrenOf(payload)[k] IN
            /\ FieldOr(child, "subscribers", 0) = 0 => CountShown(k) = "Unknown"
            /\ FieldOr(child, "subscribers", 0) # 0
                => CountShown(k) = Commas(child["data"]["subscribers"])

C10_Witness ==
    /\ SubsListing
    /\ Len(ChildrenOf(payload)) = 2
    /\ HasField(ChildrenOf(payload)[1], "subscribers")
    /\ ChildrenOf(payload)[1]["data"]["subscribers"] = 0
    /\ HasField(ChildrenOf(payload)[2], "display_name")
    /\ ~HasField(ChildrenOf(payload)[2], "subscribers")
    /\ CountShown(1) = CountShown(2)


(***************************************************************************)
(* Vocabulary of the claims about validation of the caller's input.        *)
(***************************************************************************)
MissingParameterPrefix == "Missing required parameter '"

EndpointOps ==
    {"api_v1_subreddit_emoji_emoji_name",
     "api_mod_conversations_conversation_id_unarchive",
     "api_mod_conversations_conversation_id_unban",
     "api_mod_conversations_conversation_id_unmute"}

\* the finished listing call got a value outside the allowed set or range
InvalidListingInput ==
    \/ Finished("get_subreddit_posts")
        /\ (call.timeframe \notin AllowedTimeframes
            \/ call.limit < 1 \/ call.limit > 100)
    \/ Finished("search_subreddits")
        /\ (call.sort \notin AllowedSorts \/ call.limit < 1 \/ call.limit > 100)

\* the finished create_post call got a kind outside the allowed set or lacks
\* the companion its kind requires
InvalidCreatePost ==
    /\ Finished("create_post")
    /\ \/ call.kind \notin {"self", "link"}
       \/ call.kind = "self" /\ call.text \in {None, ""}
       \/ call.kind = "link" /\ call.url \in {None, ""}

\* the finished endpoint call got None for a required path parameter
MissingPathParameter ==
    \/ Finished("api_v1_subreddit_emoji_emoji_name")
        /\ (call.subreddit = None \/ call.emoji_name = None)
    \/ /\ pc = "done"
       /\ call.op \in EndpointOps \ {"api_v1_subreddit_emoji_emoji_name"}
       /\ call.conversation_id = None

IsValueError(r) == r.kind = "raise" /\ r.exc = "ValueError"

(***************************************************************************)
(* C11: every operation reports a failed validation of the caller's input  *)
(* (a value outside its allowed set or range, a required companion value   *)
(* missing, a required path parameter None) as a returned message; no      *)
(* operation raises because of invalid caller input.                       *)
(***************************************************************************)
C11_Original ==
    (InvalidListingInput \/ InvalidCreatePost \/ MissingPathParameter)
        => IsText(result)

(***************************************************************************)
(* C11, amended: only get_subreddit_posts and search_subreddits report a   *)
(* failed validation as a returned message.  create_post raises ValueError *)
(* for a kind outside {self, link} or a missing companion, and a generated *)
(* endpoint operation raises ValueError("Missing required parameter        *)
(* '<name>'") for a required path parameter that is None.  In every case   *)
(* no HTTP request is issued.                                              *)
(***************************************************************************)
C11_ValidationOutcome ==
    /\ InvalidListingInput => IsValidationError(result) /\ NoRequest
    /\ InvalidCreatePost => IsValueError(result) /\ NoRequest
    /\ MissingPathParameter
        => /\ IsValueError(result)
           /\ result.text[1] = MissingParameterPrefix
           /\ NoRequest

C11_Witness ==
    /\ Finished("api_v1_subreddit_emoji_emoji_name")
    /\ call.subreddit = "python"
    /\ call.emoji_name = None
    /\ IsValueError(result)
    /\ result.text = <<MissingParameterPrefix, "emoji_name", "'">>


(***************************************************************************)
(* Vocabulary of the claims about credentials and the transport.           *)
(***************************************************************************)
\* the finished call went through _get_headers: it entered _post, or one of
\* the inherited helpers that ask _get_headers for the headers
WentThroughHeaders ==
    pc = "done" /\ (posted.kind # "none" \/ getCalls = 1)

NoProvider == ~integration.configured

TokenMissing ==
    /\ integration.configured
    /\ integration.authorized
    /\ "access_token" \notin DOMAIN integration.credentials

(***************************************************************************)
(* C12: when no credential provider is configured, or the credentials it   *)
(* yields lack access_token, every call that goes through _get_headers or  *)
(* _post ends with an error raised to the caller and no HTTP request is    *)
(* issued; in the second case the provider is read exactly once.           *)
(***************************************************************************)
C12_NoCredentialsNoRequest ==
    /\ (WentThroughHeaders /\ NoProvider)
        => /\ IsValueError(result)
           /\ result.text = <<"Integration not configured for RedditApp">>
           /\ requests = <<>>
           /\ credReads = 0
    /\ (WentThroughHeaders /\ TokenMissing)
        => /\ IsValueError(result)
           /\ result.text = <<"Invalid Reddit credentials format.">>
           /\ requests = <<>>
           /\ credReads = 1

C12_Witness ==
    /\ Finished("post_comment")
    /\ TokenMissing
    /\ posted.kind = "raise"
    /\ credReads = 1
    /\ IsValueError(result)


\* the finished call entered _post and its request got a response
PostGotResponse ==
    pc = "done" /\ posted.kind # "none" /\ upstream.kind = "response"

PostReturnedResponse == posted.kind = "return" /\ posted.type = "response"

(***************************************************************************)
(* C13: _post returns the response object only when the status of the      *)
(* response is 2xx, and then it is the response received; every other      *)
(* status except 429 makes _post raise an HTTP status error that carries   *)
(* the response.                                                           *)
(***************************************************************************)
C13_PostStatus ==
    PostGotResponse =>
        /\ PostReturnedResponse <=> upstream.status \in 200..299
        /\ PostReturnedResponse => posted.response = upstream
        /\ (upstream.status \notin 200..299 /\ upstream.status # 429)
            => /\ posted.kind = "raise"
               /\ posted.exc = "HTTPStatusError"
               /\ posted.response = upstream

C13_Witness ==
    /\ Finished("edit_content")
    /\ PostGotResponse
    /\ upstream.status = 300
    /\ posted.kind = "raise"
    /\ posted.exc = "HTTPStatusError"
    /\ posted.response.status = 300


EnteredPost == pc = "done" /\ posted.kind # "none"

Logged(level, first) ==
    \E i \in 1..Len(log) : log[i].level = level /\ log[i].msg[1] = first

(***************************************************************************)
(* C14: in _post, a NotAuthorizedError coming from the credential layer is *)
(* logged as a warning and a transport failure is logged as an error, and  *)
(* each is then raised to the caller of _post as the same exception: it is *)
(* not swallowed, replaced or returned.                                    *)
(***************************************************************************)
C14_PostReraises ==
    /\ (EnteredPost /\ integration.configured /\ ~integration.authorized)
        => /\ posted.kind = "raise"
           /\ posted.exc = "NotAuthorizedError"
           /\ posted = GetHeaders(integration).out
           /\ Logged("warning", "Authorization needed: ")
    /\ (EnteredPost /\ upstream.kind = "transport_error")
        => /\ posted.kind = "raise"
           /\ posted = TransportException
           /\ Logged("error", "Error posting ")

C14_Witness ==
    /\ Finished("delete_content")
    /\ upstream.kind = "transport_error"
    /\ posted = TransportException
    /\ Logged("error", "Error posting ")

(***************************************************************************)
(* C15: one invocation of an operation issues at most one HTTP request,    *)
(* whatever its outcome: a failed request is not sent again.               *)
(***************************************************************************)
C15_AtMostOneRequest ==
    /\ Len(requests) <= 1
    /\ (pc = "done" /\ upstream.kind # "none") => Len(requests) = 1

C15_Witness ==
    /\ Finished("post_comment")
    /\ upstream.kind = "response"
    /\ upstream.status = 500
    /\ result.kind = "raise"
    /\ Len(requests) = 1


\* the operations of RedditApp a caller may invoke
PublicOperations == DefinedMethods \ (PrivateMethods \cup {"list_tools"})

(***************************************************************************)
(* C16: list_tools returns, without raising, a flat list in which every    *)
(* entry is an operation defined on RedditApp and in which every public    *)
(* operation appears exactly once.                                         *)
(***************************************************************************)
C16_ListTools ==
    Finished("list_tools") =>
        /\ result.kind = "return"
        /\ \A i \in 1..Len(result.tools) : result.tools[i] \in PublicOperations
        /\ \A name \in PublicOperations :
              Cardinality({i \in 1..Len(result.tools) : result.tools[i] = name}) = 1


ModConversationOps ==
    {"api_mod_conversations_conversation_id_unarchive",
     "api_mod_conversations_conversation_id_unban",
     "api_mod_conversations_conversation_id_unmute"}

\* the last segment of the path each operation posts to
ModVerb(op) ==
    CASE op = "api_mod_conversations_conversation_id_unarchive" -> "unarchive"
      [] op = "api_mod_conversations_conversation_id_unban" -> "unban"
      [] op = "api_mod_conversations_conversation_id_unmute" -> "unmute"

(***************************************************************************)
(* C20: an operation whose input passes validation issues an authenticated *)
(* HTTP request and, on a 2xx answer, returns the parsed JSON; in          *)
(* particular the unarchive, unban and unmute operations, given a          *)
(* conversation_id that is not None, issue one POST to                     *)
(* /api/mod/conversations/{conversation_id}/unarchive (resp. unban,        *)
(* unmute) carrying the Authorization header, and return the parsed JSON   *)
(* of a 2xx answer.                                                        *)
(***************************************************************************)
C20_ModConversationPosts ==
    (/\ pc = "done"
     /\ call.op \in ModConversationOps
     /\ call.conversation_id # None
     /\ CredentialsUsable)
        => /\ Len(requests) = 1
           /\ requests[1].method = "POST"
           /\ requests[1].url = <<base_url, "/api/mod/conversations/",
                                  call.conversation_id, "/", ModVerb(call.op)>>
           /\ "Authorization" \in DOMAIN requests[1].headers
           /\ (IsSuccess(upstream.status) /\ upstream.isJson)
                => result = ReturnJson(upstream.json)


(***************************************************************************)
(* Vocabulary of the claims that compare an invocation with another run of *)
(* the same invocation.                                                    *)
(***************************************************************************)
\* the effects of the finished invocation's operation, run on the same
\* arguments and the same upstream answer with the credential provider integ
Rerun(integ, raises) ==
    CASE call.op = "get_subreddit_posts" ->
            get_subreddit_posts(integ, base_api_url, call.subreddit, call.limit,
                                call.timeframe, upstream, raises)
      [] call.op = "search_subreddits" ->
            search_subreddits(integ, base_api_url, call.query, call.limit,
                              call.sort, upstream, raises)
      [] call.op = "create_post" ->
            create_post(integ, base_api_url, call.subreddit, call.title,
                        call.kind, call.text, call.url, call.flair_id, upstream)
      [] call.op = "post_comment" ->
            post_comment(integ, base_api_url, call.parent_id, call.text, upstream)
      [] call.op = "edit_content" ->
            edit_content(integ, base_api_url, call.content_id, call.text, upstream)
      [] call.op = "delete_content" ->
            delete_content(integ, base_api_url, call.content_id, upstream)
      [] call.op = "api_v1_subreddit_emoji_emoji_name" ->
            api_v1_subreddit_emoji_emoji_name(integ, base_url, call.subreddit,
                                              call.emoji_name, upstream, raises)
      [] call.op \in ModConversationOps ->
            ModConversationPost(integ, base_url, call.conversation_id,
                                ModVerb(call.op), upstream)
      [] call.op = "list_tools" -> list_tools
      [] call.op = "api_v1_me_prefs1" ->
            api_v1_me_prefs1(integ, base_url, call.args, upstream, raises)
      [] call.op = "prefs_friends" ->
            prefs_friends(integ, base_url, call.args, upstream, raises)
      [] call.op = "get_comment_by_id" ->
            get_comment_by_id(integ, call.comment_id, upstream, raises)
      [] call.op = "api_multi_multipath_rsubreddit1" ->
            api_multi_multipath_rsubreddit1(integ, base_url, call.multipath,
                                            call.subreddit, upstream, raises)

\* the run observed in the state is the run Rerun recomputes
Observed(e) ==
    /\ e.out = result
    /\ e.log = log
    /\ e.requests = requests
    /\ e.reads = credReads

Tokens == {c.access_token : c \in {d \in Credentials : "access_token" \in DOMAIN d}}

\* the same credential provider holding another value of access_token
OtherToken(integ, t) ==
    [integ EXCEPT !.credentials = [access_token |-> t]]

LogPieces == UNION {Range(log[i].msg) : i \in 1..Len(log)}

C18_FieldsUnchanged ==
    [][/\ integration' = integration
       /\ base_api_url' = base_api_url
       /\ base_url' = base_url
       /\ pc' = "idle" => /\ base_api_url' = BaseUrl
                          /\ base_url' = BaseUrl
                          /\ call' = NoCall
                          /\ requests' = <<>>
                          /\ log' = <<>>
                          /\ credReads' = 0
                          /\ result' = NoResult]_vars

C18_Witness ==
    /\ Finished("create_post")
    /\ CredentialsUsable
    /\ Len(requests) = 1
    /\ result.kind = "return"
    /\ base_api_url = BaseUrl
    /\ base_url = BaseUrl


(***************************************************************************)
(* Vocabulary of the claim about concurrent callers.                       *)
(***************************************************************************)
\* the call of caller c run alone, answered by up
Alone(c, up) == RunCall(integration, base_api_url, callers[c].call, up)

\* the request on the connection of caller c carries the URL and the body
\* of c's own call
CarriesOwnCall(c) ==
    /\ Len(wire[c].requests) = 1
    /\ LET k == callers[c].call
           r == wire[c].requests[1]
       IN /\ r.method = "POST"
          /\ k.op = "post_comment"
                => /\ r.url = <<base_api_url, "/api/comment">>
                   /\ r.data = [parent |-> k.parent_id, text |-> k.text]
          /\ k.op = "delete_content"
                => /\ r.url = <<base_api_url, "/api/del">>
                   /\ r.data = [id |-> k.content_id]

DocumentedAsRead ==
    {"get_subreddit_posts", "search_subreddits",
     "api_v1_subreddit_emoji_emoji_name"}

(***************************************************************************)
(* C21: an operation that reads data issues an HTTP GET: no operation      *)
(* documented as retrieving something ever sends a DELETE, POST or PATCH   *)
(* request.                                                                *)
(***************************************************************************)
C21_ReadsUseGet ==
    (pc = "done" /\ call.op \in DocumentedAsRead)
        => \A i \in 1..Len(requests) : requests[i].method = "GET"


(***************************************************************************)
(* Vocabulary of the claim about the parameters and the body of requests.  *)
(***************************************************************************)
SuppliedKeys(args) == {k \in DOMAIN args : args[k] # None}

\* the mapping sent holds exactly the supplied arguments, with their values
ExactlySupplied(sent, args) ==
    /\ DOMAIN sent = SuppliedKeys(args)
    /\ \A k \in DOMAIN sent : sent[k] = args[k]

\* the arguments of the finished create_post call under the keys of its body
CreatePostArgs ==
    [sr |-> call.subreddit, title |-> call.title, kind |-> call.kind,
     text |-> call.text, url |-> call.url, flair_id |-> call.flair_id]

CreatePostAnswered ==
    /\ Finished("create_post")
    /\ upstream.kind = "response"
    /\ IsSuccess(upstream.status)
    /\ upstream.isJson

\* the answer reports a non-empty json.errors list
ReportsErrors(response_json) ==
    /\ "json" \in DOMAIN response_json
    /\ "errors" \in DOMAIN response_json["json"]
    /\ response_json["json"]["errors"] # <<>>

(***************************************************************************)
(* C23: on a 2xx answer create_post returns an error message string        *)
(* whenever the response reports a non-empty json.errors list, whatever    *)
(* the shape of the error entries (e.g. [code, message, field]), and       *)
(* returns the response JSON unchanged when json.errors is absent or       *)
(* empty; it raises in neither case.                                       *)
(***************************************************************************)
C23_CreatePostErrors ==
    CreatePostAnswered =>
        /\ ReportsErrors(upstream.json)
            => IsText(result) /\ result.text[1] = "Reddit API error: "
        /\ ~ReportsErrors(upstream.json) => result = ReturnJson(upstream.json)


CreatePostValidationMessages ==
    {<<"Invalid post kind. Must be one of 'self' or 'link'.">>,
     <<"Text content is required for text posts.">>,
     <<"URL is required for link posts (including images).">>}

OnePostToSubmit ==
    /\ Len(requests) = 1
    /\ requests[1].method = "POST"
    /\ requests[1].url = <<base_api_url, "/api/submit">>

(***************************************************************************)
(* C24: create_post raises ValueError, and issues no HTTP request, exactly *)
(* when kind is not 'self' or 'link', or kind is 'self' and text is None   *)
(* or empty, or kind is 'link' and url is None or empty; for every other   *)
(* argument combination it issues one POST to /api/submit.                 *)
(***************************************************************************)
C24_Original ==
    Finished("create_post") =>
        /\ (IsValueError(result) /\ requests = <<>>) <=> InvalidCreatePost
        /\ ~InvalidCreatePost => OnePostToSubmit

(***************************************************************************)
(* C24, amended: create_post raises ValueError with one of its three       *)
(* validation messages, without entering _post, reading the credentials or *)
(* issuing a request, exactly when the arguments are invalid as above.     *)
(* For every other argument combination it enters _post; it then issues    *)
(* one POST to /api/submit when the credential provider yields an access   *)
(* token, and otherwise issues no request and raises the error of the      *)
(* credential layer, which is a ValueError too when no provider is         *)
(* configured or the token is missing.                                     *)
(***************************************************************************)
C24_ValueErrorExactly ==
    Finished("create_post") =>
        /\ InvalidCreatePost
            <=> (IsValueError(result)
                 /\ result.text \in CreatePostValidationMessages)
        /\ InvalidCreatePost
            => requests = <<>> /\ posted.kind = "none" /\ credReads = 0
        /\ ~InvalidCreatePost
            => /\ posted.kind # "none"
               /\ CredentialsUsable => OnePostToSubmit
               /\ ~CredentialsUsable
                    => /\ requests = <<>>
                       /\ result = GetHeaders(integration).out
                       /\ (NoProvider \/ TokenMissing) => IsValueError(result)

C24_Witness ==
    /\ Finished("create_post")
    /\ call.kind = "self"
    /\ call.text = ""
    /\ CredentialsUsable
    /\ result = Raise("ValueError", <<"Text content is required for text posts.">>)
    /\ requests = <<>>


\* the finished get_comment_by_id call got a JSON payload and read it
CommentPayloadRead ==
    /\ Finished("get_comment_by_id")
    /\ Len(requests) = 1
    /\ upstream.kind = "response"
    /\ upstream.isJson
    /\ IsSuccess(upstream.status) \/ result.kind = "return"

(***************************************************************************)
(* C25: get_comment_by_id returns the data record of the first child of    *)
(* the listing when the listing has at least one child, and returns the    *)
(* dictionary {"error": "Comment not found."}, without raising, when       *)
(* data.children is empty or absent.                                       *)
(***************************************************************************)
C25_FirstCommentOrNotFound ==
    CommentPayloadRead =>
        LET children == ChildrenOf(payload) IN
        /\ (children # <<>> /\ "data" \in DOMAIN children[1])
            => result = ReturnJson(children[1]["data"])
        /\ children = <<>> => result = ReturnJson([error |-> "Comment not found."])

C25_Witness ==
    /\ CommentPayloadRead
    /\ Len(ChildrenOf(payload)) = 2
    /\ ChildrenOf(payload)[1] = [kind |-> "t1", data |-> CommentB]
    /\ ChildrenOf(payload)[2] = [kind |-> "t1", data |-> CommentA]
    /\ result = ReturnJson(CommentB)


\* the success message of delete_content for the finished call
DeletedMessage ==
    ReturnJson([message |-> <<"Content ", call.content_id, " deleted successfully.">>])

\* the request to /api/del was sent and answered with a 2xx status
DeleteAnswered2xx ==
    /\ Len(requests) = 1
    /\ requests[1].url = <<base_api_url, "/api/del">>
    /\ upstream.kind = "response"
    /\ IsSuccess(upstream.status)

(***************************************************************************)
(* C26: delete_content returns the message "Content <id> deleted           *)
(* successfully." only if the request to /api/del was answered with a 2xx  *)
(* status; for every other outcome (429, any other 4xx/5xx, authorization  *)
(* or transport failure) the call raises and the message is not returned.  *)
(***************************************************************************)
C26_DeletedOnlyOn2xx ==
    Finished("delete_content") =>
        /\ result = DeletedMessage => DeleteAnswered2xx
        /\ ~DeleteAnswered2xx => result.kind = "raise"

C26_Witness ==
    /\ Finished("delete_content")
    /\ upstream.kind = "response"
    /\ upstream.status = 429
    /\ Len(requests) = 1
    /\ result.kind = "raise"
    /\ result.exc = "AttributeError"


\* the required path parameters of the finished generated endpoint call, in
\* the order of their declaration, each with the argument passed
PathParameters ==
    CASE call.op = "api_v1_subreddit_emoji_emoji_name" ->
            << <<"subreddit", call.subreddit>>, <<"emoji_name", call.emoji_name>> >>
      [] call.op = "api_multi_multipath_rsubreddit1" ->
            << <<"multipath", call.multipath>>, <<"subreddit", call.subreddit>> >>
      [] call.op \in ModConversationOps ->
            << <<"conversation_id", call.conversation_id>> >>

GeneratedEndpointCall ==
    /\ pc = "done"
    /\ call.op \in EndpointOps \cup {"api_multi_multipath_rsubreddit1"}

MissingIndexes == {i \in 1..Len(PathParameters) : PathParameters[i][2] = None}

FirstMissing ==
    PathParameters[CHOOSE i \in MissingIndexes : \A j \in MissingIndexes : i <= j][1]

(***************************************************************************)
(* C27: in a generated endpoint operation with required path parameters,   *)
(* passing None for any of them raises ValueError naming the first missing *)
(* parameter in declaration order, before the URL is built and before any  *)
(* HTTP request is issued; the text "None" is never interpolated into the  *)
(* URL of a request.                                                       *)
(***************************************************************************)
C27_FirstMissingNamed ==
    GeneratedEndpointCall =>
        /\ MissingIndexes # {}
            => /\ result = Raise("ValueError",
                                 <<MissingParameterPrefix, FirstMissing, "'">>)
               /\ NoRequest
               /\ credReads = 0
        /\ \A i \in 1..Len(requests) : None \notin Range(requests[i].url)

C27_Witness ==
    /\ Finished("api_multi_multipath_rsubreddit1")
    /\ call.multipath = None
    /\ call.subreddit = None
    /\ result = Raise("ValueError", <<MissingParameterPrefix, "multipath", "'">>)


InvalidLimit == call.limit < 1 \/ call.limit > 100

(***************************************************************************)
(* C28: get_subreddit_posts and search_subreddits check the enumerated     *)
(* parameter first, the limit second, and turn to the credentials and the  *)
(* HTTP request last: with an invalid enumerated value and an invalid      *)
(* limit the returned message is the one about the enumerated parameter,   *)
(* and with invalid input and no credential provider the call returns the  *)
(* validation string instead of raising the configuration error.           *)
(***************************************************************************)
C28_CheckOrder ==
    /\ (Finished("get_subreddit_posts") /\ call.timeframe \notin AllowedTimeframes)
        => IsText(result) /\ result.text[1] = "Error: Invalid timeframe '"
    /\ (Finished("search_subreddits") /\ call.sort \notin AllowedSorts)
        => IsText(result) /\ result.text[1] = "Error: Invalid sort option '"
    /\ (EnumAllowed /\ InvalidLimit)
        => IsText(result) /\ result.text[1] = "Error: Invalid limit '"
    /\ InvalidListingInput
        => IsValidationError(result) /\ NoRequest /\ credReads = 0
    /\ (ListingCall /\ ~InvalidListingInput /\ NoProvider)
        => IsValueError(result) /\ getCalls = 1

C28_Witness ==
    /\ Finished("get_subreddit_posts")
    /\ call.timeframe = "decade"
    /\ call.limit = 101
    /\ NoProvider
    /\ IsText(result)
    /\ result.text[1] = "Error: Invalid timeframe '"


\* the finished listing call returned a listing: a header line and entries
ListingReturned ==
    /\ ListingCall
    /\ IsText(result)
    /\ result.text[1] \in {"Top ", "Found "}

\* the count printed in the header line
HeaderCount == SplitLines(result.text)[1][2]

(***************************************************************************)
(* C29: in every non-empty listing returned by get_subreddit_posts and     *)
(* search_subreddits the count printed in the header line equals the       *)
(* number of numbered entries that follow, which is the number of children *)
(* in the payload, even when that number differs from the limit requested. *)
(***************************************************************************)
C29_HeaderCount ==
    ListingReturned =>
        /\ GotPayload
        /\ Len(ChildrenOf(payload)) >= 1
        /\ LET lines == SplitLines(result.text)
           IN  /\ lines[1][2] = ToString(Len(SelectSeq(lines, IsEntryLine)))
               /\ lines[1][2] = ToString(Len(ChildrenOf(payload)))

C29_Witness ==
    /\ ListingReturned
    /\ call.op = "search_subreddits"
    /\ call.limit = 1
    /\ Len(ChildrenOf(payload)) = 2
    /\ "data" \notin DOMAIN ChildrenOf(payload)[2]
    /\ HeaderCount = "2"

====
